---- MODULE Spec2Model ----
(***************************************************************************)
(* Model of the reconciliation and billing-computation engine:             *)
(*   calc/billing.py     build_billing, build_all_billings                  *)
(*   calc/nick_calc.py   calc_nick_billing, calc_all_nick                   *)
(*   utils/name_match.py normalize_name, _is_one_char_diff, find_best_match *)
(*   readers/master_reader.py  RxRow, RxRow.welfare_limit                   *)
(*                                                                         *)
(* Python's None is modelled as the empty tuple and an int v that is       *)
(* present as <<v>>.  Strings that the code parses (names, notes) are      *)
(* sequences of one-character tokens.  A dict whose iteration order        *)
(* matters is a sequence of <<key, value>> pairs in insertion order.       *)
(***************************************************************************)
EXTENDS Integers, Sequences, FiniteSets, TLC

VARIABLES
    pc,              \* position of the run: "start" or "done"
    config,          \* config.yaml contents
    rx_row,          \* build_billing: the ledger row
    meal_amount,     \* build_billing: meal override (None or <<v>>)
    diaper_amount,   \* build_billing: diaper override
    supply_amount,   \* build_billing: supply override
    is_new_month,    \* rollover flag (build_billing / build_all_billings)
    result,          \* build_billing: the BillingResult (None before the call)
    rx_rows,         \* build_all_billings: the ledger rows
    meal_by_room,    \* build_all_billings: {room: meal amount}
    nick_by_room,    \* {room: (diaper, supply)}: calc_all_nick's output
    results,         \* build_all_billings: list of BillingResult
    nick_records,    \* calc_all_nick: the usage records
    room_name_map,   \* calc_all_nick: {room: name}, in insertion order
    unmatched,       \* calc_all_nick: the unmatched usage records
    target_name,     \* find_best_match: target_name
    candidates,      \* find_best_match: candidates
    best,            \* find_best_match: returned candidate (None if none)
    name1,           \* names_match: first name
    name2,           \* names_match: second name
    matched,         \* names_match: returned bool (None before the call)
    nick_set_type,   \* calc_nick_billing_price: set_type
    nick_price,      \* calc_nick_billing_price: <<price>>, or None for ValueError
    nick_record,     \* calc_nick_billing: the usage record
    nick_totals,     \* calc_nick_billing: (diaper_total, supply_total)
    residents,       \* merge_residents_into_rx: the roster
    merged,          \* merge_residents_into_rx: returned rows or the error
    masters,         \* main: masters_by_facility, in insertion order
    meals,           \* main: meals_by_facility
    all_nick,        \* main: nick_by_room of each facility processed so far
    all_billings,    \* main: all_billings, in insertion order
    notes_pair,      \* welfare_limit: the notes of two ledger rows
    limit_pair,      \* welfare_limit: the value returned for each of them
    meal_records,    \* calc_all_meals: the meal records
    wb,              \* read_master_file: the workbook's sheets
    target_month,    \* read_master_file: (year, month)
    allow_fallback,  \* read_master_file: allow_fallback
    loaded,          \* read_master_file: what the call returned or raised
    sources,         \* main: the ledger file of each configured facility
    reported,        \* main: facilities whose load error was printed
    written          \* main: facilities whose outputs were written

vars == <<pc, config, rx_row, meal_amount, diaper_amount, supply_amount,
          is_new_month, result, rx_rows, meal_by_room, nick_by_room, results,
          nick_records, room_name_map, unmatched, target_name,
          candidates, best, name1, name2, matched, nick_set_type, nick_price,
          nick_record, nick_totals, residents, merged, masters, meals,
          all_nick, all_billings, notes_pair, limit_pair, meal_records, wb,
          target_month, allow_fallback, loaded, sources, reported, written>>

\* the variables of each function group, and their values while the group
\* is not running
namesVars == <<name1, name2, matched>>

priceVars == <<nick_set_type, nick_price, nick_record, nick_totals>>

mergeVars == <<residents, merged>>

mainVars == <<masters, meals, all_nick, all_billings>>

welfareVars == <<notes_pair, limit_pair>>

mealVars == <<meal_records>>

loadVars == <<wb, target_month, allow_fallback, loaded>>

runVars == <<sources, reported, written>>

restVars == <<welfareVars, mealVars, loadVars, runVars>>

WelfareIdle == notes_pair = <<>> /\ limit_pair = <<>>

MealIdle == meal_records = <<>>

LoadIdle ==
    wb = <<>> /\ target_month = <<>> /\ allow_fallback = FALSE /\ loaded = <<>>

RunIdle == sources = <<>> /\ reported = <<>> /\ written = <<>>

RestIdle == WelfareIdle /\ MealIdle /\ LoadIdle /\ RunIdle

NamesIdle == name1 = <<>> /\ name2 = <<>> /\ matched = <<>>

PriceIdle ==
    nick_set_type = "" /\ nick_price = <<>> /\ nick_record = <<>> /\ nick_totals = <<>>

MergeIdle == residents = <<>> /\ merged = <<>>

MainIdle ==
    masters = <<>> /\ meals = <<>> /\ all_nick = <<>> /\ all_billings = <<>>

-----------------------------------------------------------------------------
(* Python values *)

None == <<>>

Some(v) == <<v>>

\* billing.py _val: v if v is not None else 0
Val(v) == IF v = None THEN 0 ELSE v[1]

\* dict.get(key, default) on a config record
ConfigGet(cfg, key, default) == IF key \in DOMAIN cfg THEN cfg[key] ELSE default

-----------------------------------------------------------------------------
(* readers/master_reader.py: RxRow.welfare_limit *)

Digits == <<"0", "1", "2", "3", "4", "5", "6", "7", "8", "9">>

IsDigit(c) == \E i \in 1..10 : Digits[i] = c

DigitVal(c) == (CHOOSE i \in 1..10 : Digits[i] = c) - 1

\* str.strip() and the regex class \s both cover the ideographic space
IsSpace(c) == c \in {" ", "SPACE_FW"}

\* the two circle glyphs of the pattern [○〇]
IsCircle(c) == c \in {"CIRCLE_WHITE", "CIRCLE_IDEO"}

RECURSIVE LStrip(_)
LStrip(s) ==
    IF s # <<>> /\ IsSpace(Head(s)) THEN LStrip(Tail(s)) ELSE s

RECURSIVE RStrip(_)
RStrip(s) ==
    IF s # <<>> /\ IsSpace(s[Len(s)]) THEN RStrip(SubSeq(s, 1, Len(s) - 1)) ELSE s

Strip(s) == RStrip(LStrip(s))

\* s.split(sep)[0]: the text before the first separator
RECURSIVE SplitHead(_, _)
SplitHead(s, sep) ==
    IF s = <<>> \/ Head(s) = sep THEN <<>>
    ELSE <<Head(s)>> \o SplitHead(Tail(s), sep)

\* s.replace(c, "")
RECURSIVE RemoveChar(_, _)
RemoveChar(s, c) ==
    IF s = <<>> THEN <<>>
    ELSE IF Head(s) = c THEN RemoveChar(Tail(s), c)
    ELSE <<Head(s)>> \o RemoveChar(Tail(s), c)

\* the longest run of digits at the start of s
RECURSIVE DigitRun(_)
DigitRun(s) ==
    IF s # <<>> /\ IsDigit(Head(s)) THEN <<Head(s)>> \o DigitRun(Tail(s)) ELSE <<>>

\* re.search(r"(\d+)", s).group(1): the first run of digits anywhere in s
RECURSIVE FirstDigitRun(_)
FirstDigitRun(s) ==
    IF s = <<>> THEN <<>>
    ELSE IF IsDigit(Head(s)) THEN DigitRun(s)
    ELSE FirstDigitRun(Tail(s))

\* int(digits)
RECURSIVE ToInt(_)
ToInt(d) ==
    IF d = <<>> THEN 0
    ELSE ToInt(SubSeq(d, 1, Len(d) - 1)) * 10 + DigitVal(d[Len(d)])

\* re.match(r"^(\d+)\s*[○〇]", base): the digits of group 1, <<>> if no match
CircleMatch(base) ==
    LET d == DigitRun(base)
        rest == LStrip(SubSeq(base, Len(d) + 1, Len(base)))
    IN  IF d # <<>> /\ rest # <<>> /\ IsCircle(Head(rest)) THEN d ELSE <<>>

CircleUnit == 10000

CapThreshold == 10000

\* welfare_limit with the circle required right after the digits
WelfareLimitCircleAdjacent(notes) ==
    IF notes = <<>> THEN None
    ELSE
        LET notes_str == Strip(notes)
            d == DigitRun(notes_str)
            cleaned == Strip(RemoveChar(RemoveChar(notes_str, ","), "COMMA_FW"))
            m == FirstDigitRun(cleaned)
        IN  IF d # <<>> /\ Len(d) < Len(notes_str) /\ IsCircle(notes_str[Len(d) + 1])
            THEN Some(ToInt(d) * CircleUnit)
            ELSE IF m # <<>> /\ ToInt(m) >= CapThreshold THEN Some(ToInt(m))
            ELSE None

\* the welfare cap read from the notes column: None or <<cap>>
WelfareLimit(notes) ==
    IF notes = <<>> THEN None
    ELSE
        LET notes_str == Strip(notes)
            base == Strip(SplitHead(notes_str, "+"))
            circle == CircleMatch(base)
            cleaned == Strip(RemoveChar(RemoveChar(notes_str, ","), "COMMA_FW"))
            m == FirstDigitRun(cleaned)
        IN  IF circle # <<>> THEN Some(ToInt(circle) * CircleUnit)
            ELSE IF m # <<>> /\ ToInt(m) >= CapThreshold THEN Some(ToInt(m))
            ELSE None

-----------------------------------------------------------------------------
(* calc/billing.py: BillingResult and build_billing *)

\* BillingResult.fixed_total
FixedTotal(r) == r.rent + r.management + r.common + r.water + r.utility

\* BillingResult.is_vacant
ResultIsVacant(r) == r.name = ""

\* RxRow.is_vacant: not self.name or self.total in (None, 0)
RxIsVacant(rx) == rx.name = "" \/ rx.total = None \/ rx.total = Some(0)

DefaultInstallmentMonthly == 10000

\* NewInstallmentBalance without the clamp at 0
NewInstallmentBalanceUnclamped(rx, new_month) ==
    IF new_month
    THEN Val(rx.installment_balance) - Val(rx.installment)
    ELSE Val(rx.installment_balance)

\* the new installment balance (C column)
NewInstallmentBalance(rx, new_month) ==
    IF new_month
    THEN LET b == Val(rx.installment_balance) - Val(rx.installment)
         IN  IF b < 0 THEN 0 ELSE b
    ELSE Val(rx.installment_balance)

\* NewInstallment charging the monthly amount whatever the balance
NewInstallmentAlways(rx, cfg, new_month) ==
    IF new_month
    THEN ConfigGet(cfg, "installment_monthly", DefaultInstallmentMonthly)
    ELSE Val(rx.installment)

\* the new installment payment (M column)
NewInstallment(rx, cfg, new_month) ==
    IF new_month
    THEN IF NewInstallmentBalance(rx, new_month) > 0
         THEN ConfigGet(cfg, "installment_monthly", DefaultInstallmentMonthly)
         ELSE 0
    ELSE Val(rx.installment)

\* Overlay testing the amount's truth value instead of "is not None"
OverlayTruthy(amount, row_value) ==
    IF amount # None /\ amount[1] # 0 THEN amount[1] ELSE Val(row_value)

\* an auto-computed column: the computed amount if there is one, else the row's
Overlay(amount, row_value) == IF amount # None THEN amount[1] ELSE Val(row_value)

\* HandEntered clearing the column in every month
HandEnteredCleared(row_value, new_month) == 0

\* a hand-entered column: cleared in a new month, else carried over
HandEntered(row_value, new_month) == IF new_month THEN 0 ELSE Val(row_value)

\* the BillingResult as constructed, before the adjustment is computed
InitialResult(rx, meal, diaper, supply, cfg, new_month) ==
    [ room |-> rx.room,
      name |-> rx.name,
      rent |-> Val(rx.rent),
      management |-> Val(rx.management),
      common |-> Val(rx.common),
      water |-> Val(rx.water),
      utility |-> Val(rx.utility),
      meal |-> Overlay(meal, rx.meal),
      adjustment |-> 0,
      diaper |-> Overlay(diaper, rx.diaper),
      daily_supplies |-> Overlay(supply, rx.daily_supplies),
      installment_balance |-> NewInstallmentBalance(rx, new_month),
      installment |-> NewInstallment(rx, cfg, new_month),
      office_fee |-> HandEntered(rx.office_fee, new_month),
      day_service |-> HandEntered(rx.day_service, new_month),
      welfare_equip |-> HandEntered(rx.welfare_equip, new_month),
      pharmacy |-> HandEntered(rx.pharmacy, new_month),
      doctor |-> HandEntered(rx.doctor, new_month),
      support |-> HandEntered(rx.support, new_month),
      other |-> HandEntered(rx.other, new_month),
      subtotal |-> 0,
      care_burden |-> Val(rx.care_burden),
      nurse_burden |-> Val(rx.nurse_burden),
      total |-> 0,
      notes |-> rx.notes,
      welfare_limit |-> WelfareLimit(rx.notes),
      remaining_balance |-> 0 ]

\* PreAdjustmentSubtotal leaving out the installment column
PreAdjustmentSubtotalNoInstallment(r) ==
    r.rent + r.management + r.common + r.water + r.utility
    + r.meal + r.diaper + r.daily_supplies
    + r.office_fee + r.day_service + r.welfare_equip + r.pharmacy
    + r.doctor + r.support + r.other

\* the subtotal before adjustment: columns D..T without J
PreAdjustmentSubtotal(r) ==
    FixedTotal(r) + r.meal + r.diaper + r.daily_supplies + r.installment
    + r.office_fee + r.day_service + r.welfare_equip + r.pharmacy
    + r.doctor + r.support + r.other

\* CapBranch treating the cap as a ceiling: no adjustment when below it
CapBranchCeilingOnly(r) ==
    LET target_total == r.welfare_limit[1]
        needed_subtotal == target_total - r.care_burden - r.nurse_burden
        pre == PreAdjustmentSubtotal(r)
    IN  IF needed_subtotal - pre > 0
        THEN [r EXCEPT !.adjustment = 0,
                       !.subtotal = pre,
                       !.total = pre + r.care_burden + r.nurse_burden]
        ELSE [r EXCEPT !.adjustment = needed_subtotal - pre,
                       !.subtotal = needed_subtotal,
                       !.total = target_total]

\* welfare recipient: the total is held at the cap
CapBranch(r) ==
    LET target_total == r.welfare_limit[1]
        needed_subtotal == target_total - r.care_burden - r.nurse_burden
    IN  [r EXCEPT !.adjustment = needed_subtotal - PreAdjustmentSubtotal(r),
                  !.subtotal = needed_subtotal,
                  !.total = target_total]

\* NoCapBranch leaving the copays out of the total
NoCapBranchWithoutCopay(r) ==
    LET r1 == [r EXCEPT !.adjustment = 0]
        sub == FixedTotal(r1) + r1.meal + r1.adjustment + r1.diaper
               + r1.daily_supplies + r1.installment + r1.office_fee
               + r1.day_service + r1.welfare_equip + r1.pharmacy + r1.doctor
               + r1.support + r1.other
    IN  [r1 EXCEPT !.subtotal = sub, !.total = sub]

\* ordinary resident: no adjustment
NoCapBranch(r) ==
    LET r1 == [r EXCEPT !.adjustment = 0]
        sub == FixedTotal(r1) + r1.meal + r1.adjustment + r1.diaper
               + r1.daily_supplies + r1.installment + r1.office_fee
               + r1.day_service + r1.welfare_equip + r1.pharmacy + r1.doctor
               + r1.support + r1.other
    IN  [r1 EXCEPT !.subtotal = sub,
                   !.total = sub + r1.care_burden + r1.nurse_burden]

\* whether the cap branch is taken
CapApplies(r) == r.welfare_limit # None /\ r.welfare_limit[1] > 0

\* the remaining balance left at the installment balance
WithRemainingBalanceNotReduced(r) ==
    [r EXCEPT !.remaining_balance = r.installment_balance]

\* the remaining balance (AC column)
WithRemainingBalance(r) ==
    [r EXCEPT !.remaining_balance = r.installment_balance - r.installment]

build_billing(rx, meal, diaper, supply, cfg, new_month) ==
    LET r0 == InitialResult(rx, meal, diaper, supply, cfg, new_month)
        r1 == IF CapApplies(r0) THEN CapBranch(r0) ELSE NoCapBranch(r0)
    IN  WithRemainingBalance(r1)

-----------------------------------------------------------------------------
(* calc/billing.py: build_all_billings *)

\* dict.get(key): None when the key is absent
DictGet(d, key) == IF key \in DOMAIN d THEN Some(d[key]) ELSE None

\* meal_by_room.get(room, 0): a default of 0 in place of None
MealAmountForDefaultZero(meal_map, room) ==
    IF room \in DOMAIN meal_map THEN Some(meal_map[room]) ELSE Some(0)

\* meal_amount = meal_by_room.get(rx.room)
MealAmountFor(meal_map, room) == DictGet(meal_map, room)

\* nick_data[i] if nick_data else None, with nick_data = nick_by_room.get(rx.room);
\* a (diaper, supply) pair is a non-empty tuple and so always true
NickAmountFor(nick_map, room, i) ==
    LET nick_data == DictGet(nick_map, room)
    IN  IF nick_data # None THEN Some(nick_data[1][i]) ELSE None

\* the loop over rx_rows, appending one BillingResult per row
RECURSIVE BuildAllLoop(_, _, _, _, _, _)
BuildAllLoop(rows, meal_map, nick_map, cfg, new_month, acc) ==
    IF rows = <<>> THEN acc
    ELSE
        LET rx == Head(rows)
            billing == build_billing(rx,
                                     MealAmountFor(meal_map, rx.room),
                                     NickAmountFor(nick_map, rx.room, 1),
                                     NickAmountFor(nick_map, rx.room, 2),
                                     cfg, new_month)
        IN  BuildAllLoop(Tail(rows), meal_map, nick_map, cfg, new_month,
                         Append(acc, billing))

build_all_billings(rows, meal_map, nick_map, cfg, new_month) ==
    BuildAllLoop(rows, meal_map, nick_map, cfg, new_month, <<>>)

-----------------------------------------------------------------------------
(* utils/name_match.py *)

\* unicodedata.normalize("NFKC", c) on one character: full-width letters and
\* the ideographic space become their ASCII forms
NFKC(c) ==
    CASE c = "FW_A" -> "A"
      [] c = "FW_B" -> "B"
      [] c = "SPACE_FW" -> " "
      [] OTHER -> c

\* re.sub(r"[\s　]+", "", s) after NFKC
RECURSIVE NormalizeChars(_)
NormalizeChars(s) ==
    IF s = <<>> THEN <<>>
    ELSE IF IsSpace(NFKC(Head(s))) THEN NormalizeChars(Tail(s))
    ELSE <<NFKC(Head(s))>> \o NormalizeChars(Tail(s))

\* normalize_name: None and "" give ""
normalize_name(name) == IF name = <<>> THEN <<>> ELSE NormalizeChars(name)

\* _is_one_char_diff: same length, at least 2, exactly one position differs
IsOneCharDiff(s1, s2) ==
    IF Len(s1) # Len(s2) THEN FALSE
    ELSE IF Len(s1) < 2 THEN FALSE
    ELSE Cardinality({i \in 1..Len(s1) : s1[i] # s2[i]}) = 1

\* names_match without the one-character tolerance
names_match_exact_only(n1, n2) ==
    LET c1 == normalize_name(n1)
        c2 == normalize_name(n2)
    IN  c1 # <<>> /\ c2 # <<>> /\ c1 = c2

\* names_match: a blank canonical form never matches; otherwise equal
\* canonical forms or forms one character apart match
names_match(n1, n2) ==
    LET c1 == normalize_name(n1)
        c2 == normalize_name(n2)
    IN  IF c1 = <<>> \/ c2 = <<>> THEN FALSE
        ELSE IF c1 = c2 THEN TRUE
        ELSE IsOneCharDiff(c1, c2)

\* Python's "a in b" on strings
IsSubstring(a, b) ==
    \E i \in 0..(Len(b) - Len(a)) : SubSeq(b, i + 1, i + Len(a)) = a

\* the least element of a non-empty set of indices
MinOf(S) == CHOOSE i \in S : \A j \in S : i <= j

\* find_best_match: three passes over the candidates, each returning its first hit
find_best_match(target, cands) ==
    IF target = <<>> THEN None
    ELSE
        LET target_norm == normalize_name(target)
            exact == {i \in 1..Len(cands) : normalize_name(cands[i]) = target_norm}
            fuzzy == {i \in 1..Len(cands) :
                        /\ normalize_name(cands[i]) # <<>>
                        /\ IsOneCharDiff(target_norm, normalize_name(cands[i]))}
            partial == {i \in 1..Len(cands) :
                          /\ normalize_name(cands[i]) # <<>>
                          /\ \/ IsSubstring(target_norm, normalize_name(cands[i]))
                             \/ IsSubstring(normalize_name(cands[i]), target_norm)}
        IN  IF target_norm = <<>> THEN None
            ELSE IF exact # {} THEN Some(cands[MinOf(exact)])
            ELSE IF fuzzy # {} THEN Some(cands[MinOf(fuzzy)])
            ELSE IF partial # {} THEN Some(cands[MinOf(partial)])
            ELSE None

-----------------------------------------------------------------------------
(* utils/helpers.py calc_nick_billing_price, readers/nick_reader.py set classes *)

\* set types billed in the diaper column; FW_x is the full-width letter x
DIAPER_SETS == {"FW_A", "FW_B", "FW_C", "FW_D", "FW_E", "FW_F", "FW_G",
                "a", "b", "c", "d"}

\* set types billed in the daily-supplies column (用, 福, ふ, に)
SUPPLY_SETS == {"YOU", "FUKU", "FU", "NI"}

\* the default of nick_markup_rate, 1.21; rates are held in hundredths
DefaultMarkupPercent == 121

\* calc_nick_billing_price rounding down instead of half-up
calc_nick_billing_price_truncating(set_type, cfg) ==
    LET overrides == ConfigGet(cfg, "nick_price_overrides", <<>>)
        base_prices == ConfigGet(cfg, "nick_base_prices", <<>>)
        rate == ConfigGet(cfg, "nick_markup_rate", DefaultMarkupPercent)
    IN  IF set_type \in DOMAIN overrides THEN Some(overrides[set_type])
        ELSE IF set_type \notin DOMAIN base_prices THEN None
        ELSE Some((base_prices[set_type] * rate) \div 100)

\* calc_nick_billing_price: the override, else floor(base * rate + 0.5);
\* None stands for the ValueError of an unknown set type
calc_nick_billing_price(set_type, cfg) ==
    LET overrides == ConfigGet(cfg, "nick_price_overrides", <<>>)
        base_prices == ConfigGet(cfg, "nick_base_prices", <<>>)
        rate == ConfigGet(cfg, "nick_markup_rate", DefaultMarkupPercent)
    IN  IF set_type \in DOMAIN overrides THEN Some(overrides[set_type])
        ELSE IF set_type \notin DOMAIN base_prices THEN None
        ELSE Some((base_prices[set_type] * rate * 2 + 100) \div 200)

-----------------------------------------------------------------------------
(* calc/nick_calc.py *)

\* the loop over record.sets leaving at the first set of unknown price
RECURSIVE NickBillingLoopStopAtUnknown(_, _, _, _)
NickBillingLoopStopAtUnknown(sets, cfg, diaper_total, supply_total) ==
    IF sets = <<>> THEN <<diaper_total, supply_total>>
    ELSE
        LET s == Head(sets)
            price == calc_nick_billing_price(s.set_type, cfg)
        IN  IF price = None
            THEN <<diaper_total, supply_total>>
            ELSE IF s.set_type \in DIAPER_SETS
            THEN NickBillingLoopStopAtUnknown(Tail(sets), cfg,
                                 diaper_total + s.day_count * price[1], supply_total)
            ELSE IF s.set_type \in SUPPLY_SETS
            THEN NickBillingLoopStopAtUnknown(Tail(sets), cfg,
                                 diaper_total, supply_total + s.day_count * price[1])
            ELSE NickBillingLoopStopAtUnknown(Tail(sets), cfg,
                                 diaper_total, supply_total)

\* the loop over record.sets: <<diaper_total, supply_total>>
RECURSIVE NickBillingLoop(_, _, _, _)
NickBillingLoop(sets, cfg, diaper_total, supply_total) ==
    IF sets = <<>> THEN <<diaper_total, supply_total>>
    ELSE
        LET s == Head(sets)
            price == calc_nick_billing_price(s.set_type, cfg)
        IN  IF price = None
            THEN NickBillingLoop(Tail(sets), cfg, diaper_total, supply_total)
            ELSE IF s.set_type \in DIAPER_SETS
            THEN NickBillingLoop(Tail(sets), cfg,
                                 diaper_total + s.day_count * price[1], supply_total)
            ELSE IF s.set_type \in SUPPLY_SETS
            THEN NickBillingLoop(Tail(sets), cfg,
                                 diaper_total, supply_total + s.day_count * price[1])
            ELSE NickBillingLoop(Tail(sets), cfg, diaper_total, supply_total)

calc_nick_billing(record, cfg) == NickBillingLoop(record.sets, cfg, 0, 0)

\* d[key] = value on an insertion-ordered dict: an existing key keeps its place
DictSetSeq(d, key, value) ==
    IF \E i \in 1..Len(d) : d[i][1] = key
    THEN [i \in 1..Len(d) |-> IF d[i][1] = key THEN <<key, value>> ELSE d[i]]
    ELSE Append(d, <<key, value>>)

\* d.get(key) on an insertion-ordered dict
DictGetSeq(d, key) ==
    IF \E i \in 1..Len(d) : d[i][1] = key
    THEN Some(d[CHOOSE i \in 1..Len(d) : d[i][1] = key][2])
    ELSE None

\* the reverse index name -> room, built in the order of room_name_map
RECURSIVE BuildNameToRoom(_, _)
BuildNameToRoom(room_names, name_to_room) ==
    IF room_names = <<>> THEN name_to_room
    ELSE
        LET room == Head(room_names)[1]
            norm == normalize_name(Head(room_names)[2])
        IN  BuildNameToRoom(Tail(room_names),
                            IF norm # <<>> THEN DictSetSeq(name_to_room, norm, room)
                            ELSE name_to_room)

\* the indices of name_to_room that differ from the name in one character
FuzzyHits(name_to_room, nick_name_norm) ==
    {i \in 1..Len(name_to_room) :
        /\ nick_name_norm # <<>>
        /\ name_to_room[i][1] # <<>>
        /\ IsOneCharDiff(nick_name_norm, name_to_room[i][1])}

\* PartialHits looking only for roster names contained in the record's name
PartialHitsContainedOnly(name_to_room, nick_name_norm) ==
    {i \in 1..Len(name_to_room) :
        /\ nick_name_norm # <<>>
        /\ name_to_room[i][1] # <<>>
        /\ IsSubstring(name_to_room[i][1], nick_name_norm)}

\* the indices of name_to_room that contain the name or are contained in it
PartialHits(name_to_room, nick_name_norm) ==
    {i \in 1..Len(name_to_room) :
        /\ nick_name_norm # <<>>
        /\ name_to_room[i][1] # <<>>
        /\ \/ IsSubstring(nick_name_norm, name_to_room[i][1])
           \/ IsSubstring(name_to_room[i][1], nick_name_norm)}

\* ResolveRoom trying the substring match before the one-character match
ResolveRoomSubstringFirst(name_to_room, nick_name_norm) ==
    LET exact == DictGetSeq(name_to_room, nick_name_norm)
        fuzzy == FuzzyHits(name_to_room, nick_name_norm)
        partial == PartialHits(name_to_room, nick_name_norm)
    IN  IF exact # None THEN exact
        ELSE IF partial # {} THEN Some(name_to_room[MinOf(partial)][2])
        ELSE IF fuzzy # {} THEN Some(name_to_room[MinOf(fuzzy)][2])
        ELSE None

\* the room of a usage record's name: exact, then one character off, then
\* substring; None when no tier matches
ResolveRoom(name_to_room, nick_name_norm) ==
    LET exact == DictGetSeq(name_to_room, nick_name_norm)
        fuzzy == FuzzyHits(name_to_room, nick_name_norm)
        partial == PartialHits(name_to_room, nick_name_norm)
    IN  IF exact # None THEN exact
        ELSE IF fuzzy # {} THEN Some(name_to_room[MinOf(fuzzy)][2])
        ELSE IF partial # {} THEN Some(name_to_room[MinOf(partial)][2])
        ELSE None

\* result[room] = (diaper, supply) replacing an existing entry
AddToRoomOverwriting(res, room, diaper, supply) ==
    IF room \in DOMAIN res
    THEN [res EXCEPT ![room] = <<diaper, supply>>]
    ELSE (room :> <<diaper, supply>>) @@ res

\* result[room] = (diaper, supply), added to an existing entry
AddToRoom(res, room, diaper, supply) ==
    IF room \in DOMAIN res
    THEN [res EXCEPT ![room] = <<res[room][1] + diaper, res[room][2] + supply>>]
    ELSE (room :> <<diaper, supply>>) @@ res

\* the loop over nick_records leaving at the first unmatched record
RECURSIVE NickLoopStopAtUnmatched(_, _, _, _, _)
NickLoopStopAtUnmatched(records, name_to_room, cfg, res, unm) ==
    IF records = <<>> THEN [result |-> res, unmatched |-> unm]
    ELSE
        LET nr == Head(records)
            amounts == calc_nick_billing(nr, cfg)
            room == ResolveRoom(name_to_room, normalize_name(nr.name))
        IN  IF amounts[1] = 0 /\ amounts[2] = 0
            THEN NickLoopStopAtUnmatched(Tail(records), name_to_room, cfg, res, unm)
            ELSE IF room # None
            THEN NickLoopStopAtUnmatched(Tail(records), name_to_room, cfg,
                          AddToRoom(res, room[1], amounts[1], amounts[2]), unm)
            ELSE [result |-> res, unmatched |-> Append(unm, nr)]

\* the loop over nick_records: [result, unmatched]
RECURSIVE NickLoop(_, _, _, _, _)
NickLoop(records, name_to_room, cfg, res, unm) ==
    IF records = <<>> THEN [result |-> res, unmatched |-> unm]
    ELSE
        LET nr == Head(records)
            amounts == calc_nick_billing(nr, cfg)
            room == ResolveRoom(name_to_room, normalize_name(nr.name))
        IN  IF amounts[1] = 0 /\ amounts[2] = 0
            THEN NickLoop(Tail(records), name_to_room, cfg, res, unm)
            ELSE IF room # None
            THEN NickLoop(Tail(records), name_to_room, cfg,
                          AddToRoom(res, room[1], amounts[1], amounts[2]), unm)
            ELSE NickLoop(Tail(records), name_to_room, cfg, res, Append(unm, nr))

calc_all_nick(records, room_names, cfg) ==
    NickLoop(records, BuildNameToRoom(room_names, <<>>), cfg, <<>>, <<>>)

-----------------------------------------------------------------------------
(* Inputs of the billing engine *)

\* config.yaml as the tests use it: set prices and the price override of the
\* A set; installment_monthly and nick_markup_rate are optional keys
BaseConfig ==
    [ nick_price_overrides |-> ("FW_A" :> 908),
      nick_base_prices |-> ("FW_D" :> 300 @@ "YOU" :> 120 @@ "FUKU" :> 60) ]

\* the same configuration with a monthly installment configured
InstallmentConfig == BaseConfig @@ [installment_monthly |-> 3000]

\* the integer columns of a ledger row, C..Z and AC
NumFields ==
    <<"rent", "management", "common", "water", "utility", "meal",
      "adjustment", "diaper", "daily_supplies", "office_fee", "day_service",
      "welfare_equip", "pharmacy", "doctor", "support", "other",
      "care_burden", "nurse_burden", "subtotal", "total",
      "remaining_balance", "installment_balance", "installment">>

\* a distinct power of two per column, so that a sum tells which columns it holds
Weight(f) == 2 ^ ((CHOOSE i \in 1..Len(NumFields) : NumFields[i] = f) - 1)

\* the value of column f in a row of the given fill pattern
PatternValue(pat, f) ==
    CASE pat = "blank" -> None
      [] pat = "zero" -> Some(0)
      [] pat = "full" -> Some(Weight(f))
      [] pat = "rent" -> IF f = "rent" THEN Some(10000) ELSE None

RowPatterns == {"blank", "zero", "full", "rent"}

\* RxRow(room, name, ...) with the columns filled by pattern
MkRow(room, name, pat, bal, inst, notes) ==
    [ room |-> room,
      name |-> name,
      installment_balance |-> bal,
      rent |-> PatternValue(pat, "rent"),
      management |-> PatternValue(pat, "management"),
      common |-> PatternValue(pat, "common"),
      water |-> PatternValue(pat, "water"),
      utility |-> PatternValue(pat, "utility"),
      meal |-> PatternValue(pat, "meal"),
      adjustment |-> PatternValue(pat, "adjustment"),
      diaper |-> PatternValue(pat, "diaper"),
      daily_supplies |-> PatternValue(pat, "daily_supplies"),
      installment |-> inst,
      office_fee |-> PatternValue(pat, "office_fee"),
      day_service |-> PatternValue(pat, "day_service"),
      welfare_equip |-> PatternValue(pat, "welfare_equip"),
      pharmacy |-> PatternValue(pat, "pharmacy"),
      doctor |-> PatternValue(pat, "doctor"),
      support |-> PatternValue(pat, "support"),
      other |-> PatternValue(pat, "other"),
      subtotal |-> PatternValue(pat, "subtotal"),
      care_burden |-> PatternValue(pat, "care_burden"),
      nurse_burden |-> PatternValue(pat, "nurse_burden"),
      total |-> PatternValue(pat, "total"),
      notes |-> notes,
      invoice_status |-> None,
      remaining_balance |-> PatternValue(pat, "remaining_balance") ]

\* notes column: empty, "1〇" (cap 10,000), "0○" (cap 0), "20,000", "5000"
NoteSamples ==
    { <<>>,
      <<"1", "CIRCLE_IDEO">>,
      <<"0", "CIRCLE_WHITE">>,
      <<"2", "0", ",", "0", "0", "0">>,
      <<"5", "0", "0", "0">> }

\* (installment_balance, installment) of the ledger row
InstallmentSamples ==
    { <<None, None>>, <<Some(0), Some(0)>>, <<None, Some(10000)>>,
      <<Some(25000), None>>, <<Some(5000), Some(10000)>>,
      <<Some(10000), Some(10000)>>, <<Some(12000), Some(10000)>>,
      <<Some(30000), Some(10000)>> }

MealSamples == {None, Some(0), Some(16500)}

DiaperSamples == {None, Some(0), Some(11253)}

SupplySamples == {None, Some(0), Some(2263)}

\* the ledger rows build_billing is run on
RowSamples ==
    { MkRow("608", IF pat = "blank" THEN "" ELSE "NAME", pat, bi[1], bi[2], n) :
        pat \in RowPatterns, bi \in InstallmentSamples, n \in NoteSamples }

-----------------------------------------------------------------------------
(* build_billing on one ledger row *)

InitBilling ==
    /\ pc = "start"
    /\ config \in {BaseConfig, InstallmentConfig}
    /\ rx_row \in RowSamples
    /\ meal_amount \in MealSamples
    /\ diaper_amount \in DiaperSamples
    /\ supply_amount \in SupplySamples
    /\ is_new_month \in BOOLEAN
    /\ result = None
    /\ rx_rows = <<>>
    /\ meal_by_room = <<>>
    /\ nick_by_room = <<>>
    /\ results = <<>>
    /\ nick_records = <<>>
    /\ room_name_map = <<>>
    /\ unmatched = <<>>
    /\ target_name = <<>>
    /\ candidates = <<>>
    /\ best = None
    /\ NamesIdle /\ PriceIdle /\ MergeIdle /\ MainIdle /\ RestIdle

BuildBilling ==
    /\ pc = "start"
    /\ result' = build_billing(rx_row, meal_amount, diaper_amount,
                               supply_amount, config, is_new_month)
    /\ pc' = "done"
    /\ UNCHANGED <<config, rx_row, meal_amount, diaper_amount, supply_amount,
                   is_new_month, rx_rows, meal_by_room, nick_by_room, results,
                   nick_records, room_name_map, unmatched,
                   target_name, candidates, best,
                   namesVars, priceVars, mergeVars, mainVars,
                   restVars>>

NextBilling == BuildBilling

SpecBilling == InitBilling /\ [][NextBilling]_vars

-----------------------------------------------------------------------------
(* Properties of build_billing, checked under SpecBilling *)

\* build_billing has returned
BillingDone == pc = "done" /\ result # None

\* the row's notes resolve to a positive welfare cap
PositiveCap == WelfareLimit(rx_row.notes) # None /\ WelfareLimit(rx_row.notes)[1] > 0

\* the configured monthly installment amount
ConfiguredMonthly ==
    IF "installment_monthly" \in DOMAIN config
    THEN config.installment_monthly ELSE 10000

\* the sum of the seven hand-entered columns of a BillingResult
HandSum(r) ==
    r.office_fee + r.day_service + r.welfare_equip + r.pharmacy + r.doctor
    + r.support + r.other

\* C1: whenever the ledger row's notes resolve to a positive welfare cap, the
\* result's total equals the cap, for every override, copay value and rollover
\* flag and whatever the sign of the adjustment.
Thm_C1_TotalEqualsCap ==
    (BillingDone /\ PositiveCap) => result.total = WelfareLimit(rx_row.notes)[1]

\* a capped row whose adjustment came out negative, with an override, in rollover
Wit_C1_NegativeAdjustment ==
    /\ BillingDone /\ PositiveCap
    /\ result.adjustment < 0
    /\ meal_amount = Some(16500)
    /\ is_new_month
    /\ result.care_burden > 0

\* C2: for a row with no (positive) welfare cap the adjustment is 0 whatever the
\* ledger row stores, the subtotal is the sum of the fixed, auto-computed,
\* installment and hand-entered columns, the total is subtotal + copays, and a
\* row with only fixed charges set totals to its fixed charges.
Thm_C2_NoCap ==
    (BillingDone /\ ~PositiveCap) =>
        /\ result.adjustment = 0
        /\ result.subtotal = result.rent + result.management + result.common
               + result.water + result.utility + result.meal + result.diaper
               + result.daily_supplies + result.installment + HandSum(result)
        /\ result.total = result.subtotal + result.care_burden + result.nurse_burden
        /\ ( ( /\ \A f \in {"meal", "diaper", "daily_supplies", "installment",
                            "installment_balance", "office_fee", "day_service",
                            "welfare_equip", "pharmacy", "doctor", "support",
                            "other", "care_burden", "nurse_burden"} :
                       Val(rx_row[f]) = 0
               /\ meal_amount = None /\ diaper_amount = None /\ supply_amount = None )
             => result.total = Val(rx_row.rent) + Val(rx_row.management)
                    + Val(rx_row.common) + Val(rx_row.water) + Val(rx_row.utility) )

\* a no-cap row that stores an adjustment and carries copays
Wit_C2_StoredAdjustmentIgnored ==
    /\ BillingDone /\ WelfareLimit(rx_row.notes) = None
    /\ Val(rx_row.adjustment) # 0
    /\ result.care_burden > 0
    /\ result.subtotal > 0

\* C3: under a positive cap, subtotal = cap - care_burden - nurse_burden and
\* adjustment = subtotal - (fixed total + meal + diaper + daily_supplies
\* + installment + hand-entered columns) of the result, the ledger row's own
\* adjustment playing no part.
Thm_C3_ReverseCalculation ==
    (BillingDone /\ PositiveCap) =>
        /\ result.subtotal = WelfareLimit(rx_row.notes)[1] - Val(rx_row.care_burden)
                                 - Val(rx_row.nurse_burden)
        /\ result.adjustment = result.subtotal
               - ( result.rent + result.management + result.common + result.water
                   + result.utility + result.meal + result.diaper
                   + result.daily_supplies + result.installment + HandSum(result) )

\* a capped row with a stored adjustment, hand-entered charges and an installment
Wit_C3_CappedFullRow ==
    /\ BillingDone /\ PositiveCap
    /\ Val(rx_row.adjustment) # 0
    /\ HandSum(result) > 0
    /\ result.installment > 0
    /\ diaper_amount = Some(11253)

\* C4: in rollover the balance becomes max(0, balance - installment), the
\* installment becomes the configured monthly amount (default 10000) if that
\* balance is positive and 0 otherwise, and the hand-entered columns are 0.
Thm_C4_Rollover ==
    (BillingDone /\ is_new_month) =>
        LET diff == Val(rx_row.installment_balance) - Val(rx_row.installment)
            bal == IF diff > 0 THEN diff ELSE 0
        IN  /\ result.installment_balance = bal
            /\ result.installment = IF bal > 0 THEN ConfiguredMonthly ELSE 0
            /\ result.office_fee = 0 /\ result.day_service = 0
            /\ result.welfare_equip = 0 /\ result.pharmacy = 0
            /\ result.doctor = 0 /\ result.support = 0 /\ result.other = 0

\* rollover of a row with hand-entered charges whose installment exceeds its balance
Wit_C4_RolloverClamped ==
    /\ BillingDone /\ is_new_month
    /\ Val(rx_row.installment) > Val(rx_row.installment_balance)
    /\ Val(rx_row.installment_balance) > 0
    /\ Val(rx_row.pharmacy) > 0

\* C5 (as claimed): a rollover result built from non-negative balance,
\* installment and monthly amount has installment_balance >= 0 and
\* remaining_balance >= 0.
Cex_C5_NoNegativeBalance ==
    ( /\ BillingDone /\ is_new_month
      /\ Val(rx_row.installment_balance) >= 0
      /\ Val(rx_row.installment) >= 0
      /\ ConfiguredMonthly >= 0 )
    => (result.installment_balance >= 0 /\ result.remaining_balance >= 0)

\* C6: without rollover the balance, the installment and the hand-entered
\* columns are the ledger row's (absent as 0), and remaining_balance is
\* installment_balance - installment.
Thm_C6_PassThrough ==
    (BillingDone /\ ~is_new_month) =>
        /\ result.installment_balance = Val(rx_row.installment_balance)
        /\ result.installment = Val(rx_row.installment)
        /\ \A f \in {"office_fee", "day_service", "welfare_equip", "pharmacy",
                     "doctor", "support", "other"} : result[f] = Val(rx_row[f])
        /\ result.remaining_balance = result.installment_balance - result.installment

\* a non-rollover result of a row with distinct hand-entered charges and a balance
Wit_C6_FullRowKept ==
    /\ BillingDone /\ ~is_new_month
    /\ Val(rx_row.office_fee) > 0
    /\ Val(rx_row.other) > Val(rx_row.office_fee)
    /\ Val(rx_row.installment_balance) > Val(rx_row.installment)
    /\ Val(rx_row.installment) > 0

\* the value C7 expects in an auto-computed column
Overlaid(amount, row_value) ==
    IF amount = None THEN (IF row_value = None THEN 0 ELSE row_value[1])
    ELSE amount[1]

\* C7: in both branches meal, diaper and daily_supplies are the override when
\* one is supplied (0 included) and the ledger row's value otherwise; the fixed
\* charges and both copays are always the ledger row's.
Thm_C7_Overlay ==
    BillingDone =>
        /\ result.meal = Overlaid(meal_amount, rx_row.meal)
        /\ result.diaper = Overlaid(diaper_amount, rx_row.diaper)
        /\ result.daily_supplies = Overlaid(supply_amount, rx_row.daily_supplies)
        /\ \A f \in {"rent", "management", "common", "water", "utility",
                     "care_burden", "nurse_burden"} : result[f] = Val(rx_row[f])

\* an override of 0 over a row value, next to an absent and a supplied override
Wit_C7_ZeroOverride ==
    /\ BillingDone
    /\ meal_amount = Some(0) /\ Val(rx_row.meal) > 0
    /\ diaper_amount = None /\ Val(rx_row.diaper) > 0
    /\ supply_amount = Some(2263)
    /\ is_new_month

-----------------------------------------------------------------------------
(* build_all_billings on a facility's ledger *)

MaxRows == 2

Rooms == {"608", "703", "2A"}

\* the rooms the amount maps may hold; "2A" never has a computed amount
MapRooms == {"608", "703"}

\* finite maps from a subset of keys to values
Maps(keys, values) == UNION {[S -> values] : S \in SUBSET keys}

\* sequences of length at most n
SeqsUpTo(S, n) == UNION {[1..k -> S] : k \in 0..n}

\* ledger rows of a facility: vacant or occupied, with and without a cap
LedgerRowSamples ==
    { MkRow(room,
            IF pat = "blank" THEN "" ELSE "NAME",
            pat,
            IF pat = "blank" THEN None ELSE Some(12000),
            IF pat = "blank" THEN None ELSE Some(10000),
            n) :
        room \in Rooms, pat \in {"blank", "full"},
        n \in {<<>>, <<"1", "CIRCLE_IDEO">>} }

InitAll ==
    /\ pc = "start"
    /\ config = InstallmentConfig
    /\ rx_rows \in SeqsUpTo(LedgerRowSamples, MaxRows)
    /\ meal_by_room \in Maps(MapRooms, {0, 16500})
    /\ nick_by_room \in Maps(MapRooms, {<<0, 2263>>, <<11253, 0>>})
    /\ is_new_month \in BOOLEAN
    /\ results = <<>>
    /\ rx_row = None
    /\ meal_amount = None
    /\ diaper_amount = None
    /\ supply_amount = None
    /\ result = None
    /\ nick_records = <<>>
    /\ room_name_map = <<>>
    /\ unmatched = <<>>
    /\ target_name = <<>>
    /\ candidates = <<>>
    /\ best = None
    /\ NamesIdle /\ PriceIdle /\ MergeIdle /\ MainIdle /\ RestIdle

BuildAllBillings ==
    /\ pc = "start"
    /\ results' = build_all_billings(rx_rows, meal_by_room, nick_by_room,
                                     config, is_new_month)
    /\ pc' = "done"
    /\ UNCHANGED <<config, rx_row, meal_amount, diaper_amount, supply_amount,
                   is_new_month, result, rx_rows, meal_by_room, nick_by_room,
                   nick_records, room_name_map, unmatched,
                   target_name, candidates, best,
                   namesVars, priceVars, mergeVars, mainVars,
                   restVars>>

NextAll == BuildAllBillings

SpecAll == InitAll /\ [][NextAll]_vars

\* the override the i-th row must get from a map: present iff its room is a key
ExpectedOverride(map, i) ==
    IF \E k \in DOMAIN map : k = rx_rows[i].room
    THEN <<map[rx_rows[i].room]>> ELSE <<>>

\* C8: build_all_billings returns one result per ledger row, in the rows'
\* order, the i-th result being build_billing of the i-th row with the meal
\* override meal_by_room[room] and the (diaper, supply) overrides
\* nick_by_room[room] when the room is a key and no override otherwise.
Thm_C8_OnePerRowInOrder ==
    pc = "done" =>
        /\ Len(results) = Len(rx_rows)
        /\ \A i \in 1..Len(rx_rows) :
             LET m == ExpectedOverride(meal_by_room, i)
                 n == ExpectedOverride(nick_by_room, i)
             IN  results[i] =
                   build_billing(rx_rows[i], m,
                                 IF n = <<>> THEN <<>> ELSE <<n[1][1]>>,
                                 IF n = <<>> THEN <<>> ELSE <<n[1][2]>>,
                                 config, is_new_month)

\* two rows of different rooms, one with computed amounts and one without,
\* while the maps also hold a room that has no row
Wit_C8_MixedRooms ==
    /\ pc = "done"
    /\ Len(results) = 2
    /\ rx_rows[1].room = "2A" /\ rx_rows[2].room = "608"
    /\ Val(rx_rows[1].meal) > 0
    /\ DOMAIN meal_by_room = {"608", "703"}
    /\ DOMAIN nick_by_room = {"608"}
    /\ results[2].diaper = 11253

-----------------------------------------------------------------------------
(* calc_all_nick and find_best_match on one usage record and one roster *)

MaxRooms == 2

MaxNameLen == 2

\* the room of the i-th entry of room_name_map
RoomLabels == <<"101", "102", "103", "104">>

\* names of the ledger: A, AB, "A B", AA, BB, ABA and a blank, with full-width
\* letters and spaces as the ledger sheets carry them
RosterNameSamples ==
    { <<"A">>,
      <<"A", "FW_B">>,
      <<"A", " ", "FW_B">>,
      <<"A", "A">>,
      <<"FW_B", "FW_B">>,
      <<"A", "FW_B", "A">>,
      <<"SPACE_FW">> }

\* the characters of a usage record's name
TargetChars == {"A", "B", " "}

\* the sets of a usage record: none, or the 福 set used on 31 days
SetSamples == { <<>>, <<[set_type |-> "FUKU", day_count |-> 31]>> }

InitNick ==
    /\ pc = "start"
    /\ config = BaseConfig
    /\ target_name \in SeqsUpTo(TargetChars, MaxNameLen)
    /\ candidates \in SeqsUpTo(RosterNameSamples, MaxRooms)
    /\ nick_records \in
         { <<[station |-> "ST", user_id |-> "U1", name |-> target_name,
              sets |-> sets]>> : sets \in SetSamples }
    /\ room_name_map = [i \in 1..Len(candidates) |-> <<RoomLabels[i], candidates[i]>>]
    /\ nick_by_room = <<>>
    /\ unmatched = <<>>
    /\ best = None
    /\ rx_row = None
    /\ meal_amount = None
    /\ diaper_amount = None
    /\ supply_amount = None
    /\ is_new_month = FALSE
    /\ result = None
    /\ rx_rows = <<>>
    /\ meal_by_room = <<>>
    /\ results = <<>>
    /\ NamesIdle /\ PriceIdle /\ MergeIdle /\ MainIdle /\ RestIdle

CalcAllNick ==
    /\ pc = "start"
    /\ LET out == calc_all_nick(nick_records, room_name_map, config)
       IN  /\ nick_by_room' = out.result
           /\ unmatched' = out.unmatched
    /\ pc' = "matched"
    /\ UNCHANGED <<config, rx_row, meal_amount, diaper_amount, supply_amount,
                   is_new_month, result, rx_rows, meal_by_room, results,
                   nick_records, room_name_map, target_name, candidates, best,
                   namesVars, priceVars, mergeVars, mainVars,
                   restVars>>

FindBestMatch ==
    /\ pc = "matched"
    /\ best' = find_best_match(target_name, candidates)
    /\ pc' = "done"
    /\ UNCHANGED <<config, rx_row, meal_amount, diaper_amount, supply_amount,
                   is_new_month, result, rx_rows, meal_by_room, nick_by_room,
                   results, nick_records, room_name_map, unmatched,
                   target_name, candidates,
                   namesVars, priceVars, mergeVars, mainVars,
                   restVars>>

NextNick == CalcAllNick \/ FindBestMatch

SpecNick == InitNick /\ [][NextNick]_vars

\* canonical forms of the usage record's name and of the i-th roster name
TargetCanon == normalize_name(target_name)

CandCanon(i) == normalize_name(candidates[i])

\* tier 1: the canonical names are equal
ExactAt(i) == TargetCanon # <<>> /\ CandCanon(i) = TargetCanon

\* tier 2: canonical names of the same length, at least 2, that differ in one place
OneCharOff(a, b) ==
    /\ Len(a) = Len(b) /\ Len(a) >= 2
    /\ \E k \in 1..Len(a) :
         a[k] # b[k] /\ \A j \in 1..Len(a) : j # k => a[j] = b[j]

OneCharAt(i) == OneCharOff(TargetCanon, CandCanon(i))

\* a occurs in b
Contains(b, a) ==
    \E lo \in 1..(Len(b) + 1) : \E hi \in 0..Len(b) :
        hi - lo + 1 = Len(a) /\ \A k \in 1..Len(a) : b[lo + k - 1] = a[k]

\* tier 3: matched by containment in either direction
SubstringAt(i) ==
    /\ TargetCanon # <<>> /\ CandCanon(i) # <<>>
    /\ Contains(CandCanon(i), TargetCanon) \/ Contains(TargetCanon, CandCanon(i))

Indices == 1..Len(candidates)

\* the usage record has a non-zero total, so calc_all_nick resolves its name
RecordBilled ==
    LET amounts == calc_nick_billing(nick_records[1], config)
    IN  amounts[1] # 0 \/ amounts[2] # 0

\* calc_all_nick resolved the record to the room of the i-th roster entry
ResolvedTo(i) == DOMAIN nick_by_room = {RoomLabels[i]}

\* C9: a roster name whose canonical form equals the record's is chosen over
\* one that differs in one character (tier 2: equal length of at least 2),
\* which is chosen over one matched only by containment, in any order of the
\* candidates, by find_best_match and by calc_all_nick alike.
Thm_C9_Tiering ==
    pc = "done" =>
        /\ (\E i \in Indices : ExactAt(i)) =>
             /\ best # None /\ normalize_name(best[1]) = TargetCanon
             /\ RecordBilled => \E i \in Indices : ExactAt(i) /\ ResolvedTo(i)
        /\ ((\A i \in Indices : ~ExactAt(i)) /\ (\E i \in Indices : OneCharAt(i))) =>
             /\ best # None /\ OneCharOff(TargetCanon, normalize_name(best[1]))
             /\ RecordBilled => \E i \in Indices : OneCharAt(i) /\ ResolvedTo(i)
        /\ ((\A i \in Indices : ~ExactAt(i) /\ ~OneCharAt(i))
              /\ (\E i \in Indices : SubstringAt(i))) =>
             /\ best # None /\ \E i \in Indices : SubstringAt(i) /\ best[1] = candidates[i]
             /\ RecordBilled => \E i \in Indices : SubstringAt(i) /\ ResolvedTo(i)

\* a containment match listed before a one-character match: the latter is chosen
Wit_C9_OneCharOverSubstring ==
    /\ pc = "done" /\ RecordBilled
    /\ Len(candidates) = 2
    /\ SubstringAt(1) /\ ~OneCharAt(1) /\ ~ExactAt(1)
    /\ OneCharAt(2)
    /\ ResolvedTo(2)
    /\ best = Some(candidates[2])

\* C10 (as claimed): within the tier that decides, calc_all_nick resolves the
\* record to the room of the first qualifying entry in the order of
\* room_name_map, also when two rooms carry names of the same canonical form.
Cex_C10_FirstMatchWins ==
    (pc = "done" /\ RecordBilled) =>
        LET exact == {i \in Indices : ExactAt(i)}
            fuzzy == {i \in Indices : OneCharAt(i)}
            partial == {i \in Indices : SubstringAt(i)}
        IN  IF exact # {} THEN ResolvedTo(MinOf(exact))
            ELSE IF fuzzy # {} THEN ResolvedTo(MinOf(fuzzy))
            ELSE IF partial # {} THEN ResolvedTo(MinOf(partial))
            ELSE TRUE

-----------------------------------------------------------------------------
(* names_match on a pair of names *)

\* the characters of the compared names: ASCII and full-width letters, an
\* ASCII and an ideographic space
NameChars == {"A", "B", "FW_A", " ", "SPACE_FW"}

\* None and "" are both the empty sequence
InitNames ==
    /\ pc = "start"
    /\ config = BaseConfig
    /\ name1 \in SeqsUpTo(NameChars, MaxNameLen)
    /\ name2 \in SeqsUpTo(NameChars, MaxNameLen)
    /\ matched = None
    /\ rx_row = None
    /\ meal_amount = None
    /\ diaper_amount = None
    /\ supply_amount = None
    /\ is_new_month = FALSE
    /\ result = None
    /\ rx_rows = <<>>
    /\ meal_by_room = <<>>
    /\ nick_by_room = <<>>
    /\ results = <<>>
    /\ nick_records = <<>>
    /\ room_name_map = <<>>
    /\ unmatched = <<>>
    /\ target_name = <<>>
    /\ candidates = <<>>
    /\ best = None
    /\ PriceIdle /\ MergeIdle /\ MainIdle /\ RestIdle

billingVars == <<config, rx_row, meal_amount, diaper_amount, supply_amount,
                 is_new_month, result, rx_rows, meal_by_room, results>>

nickVars == <<nick_by_room, nick_records, room_name_map, unmatched,
              target_name, candidates, best>>

NamesMatch ==
    /\ pc = "start"
    /\ matched' = Some(names_match(name1, name2))
    /\ pc' = "done"
    /\ UNCHANGED <<name1, name2, billingVars, nickVars, priceVars, mergeVars,
                   mainVars,
                   restVars>>

NextNames == NamesMatch

SpecNames == InitNames /\ [][NextNames]_vars

\* the canonical forms, computed position by position: full-width letters
\* folded to ASCII, every kind of space dropped
Fold(c) == IF c = "FW_A" THEN "A" ELSE IF c = "FW_B" THEN "B" ELSE c

Kept(n) == {i \in 1..Len(n) : n[i] \notin {" ", "SPACE_FW"}}

\* the canonical forms of n1 and n2 are equal
SameCanon(n1, n2) ==
    /\ Cardinality(Kept(n1)) = Cardinality(Kept(n2))
    /\ \A i \in Kept(n1) : \A j \in Kept(n2) :
          Cardinality({k \in Kept(n1) : k < i}) = Cardinality({k \in Kept(n2) : k < j})
            => Fold(n1[i]) = Fold(n2[j])

\* the canonical forms have the same length of at least 2 and differ in
\* exactly one position
CanonOneOff(n1, n2) ==
    /\ Cardinality(Kept(n1)) = Cardinality(Kept(n2))
    /\ Cardinality(Kept(n1)) >= 2
    /\ Cardinality({i \in Kept(n1) : \E j \in Kept(n2) :
          /\ Cardinality({k \in Kept(n1) : k < i}) = Cardinality({k \in Kept(n2) : k < j})
          /\ Fold(n1[i]) # Fold(n2[j])}) = 1

\* C11 (as claimed): names_match returns true exactly when the canonical
\* forms of the two names are equal, blank names and names one character
\* apart included.
Cex_C11_TrueIffCanonicalEqual ==
    pc = "done" => (matched = Some(TRUE) <=> SameCanon(name1, name2))

\* C11 (amended): names_match returns true exactly when both canonical forms
\* are non-blank and either equal or of the same length of at least 2 with
\* exactly one differing position.
Thm_C11_EqualOrOneCharOff ==
    pc = "done" =>
        (matched = Some(TRUE) <=>
            /\ Kept(name1) # {} /\ Kept(name2) # {}
            /\ SameCanon(name1, name2) \/ CanonOneOff(name1, name2))

\* "AB" against full-width "A" followed by "A": canonical forms AB and AA
Wit_C11_OneCharApart ==
    /\ pc = "done"
    /\ name1 = <<"A", "B">> /\ name2 = <<"FW_A", "A">>
    /\ matched = Some(TRUE)

-----------------------------------------------------------------------------
(* calc_nick_billing_price on a set type, calc_nick_billing on a usage record *)

MaxSets == 2

\* a configuration with an explicit markup rate of 1.25, an override of 0
\* that shadows a base price, a base price of 50 (50 x 1.25 = 62.5) and a
\* priced set type of neither category
MarkupConfig ==
    [ nick_price_overrides |-> ("FW_A" :> 908 @@ "FUKU" :> 0),
      nick_base_prices |-> ("FW_D" :> 300 @@ "FUKU" :> 60 @@ "FU" :> 50
                            @@ "MISC" :> 100),
      nick_markup_rate |-> 125 ]

\* a configuration without any price key
NoPriceConfig == [installment_monthly |-> 3000]

PriceConfigs == {BaseConfig, MarkupConfig, NoPriceConfig}

\* set types: diaper sets with and without a price (A, D / G), supply sets
\* with and without a price (用, 福, ふ / に) and one of neither category
SetTypeSamples == {"FW_A", "FW_D", "FW_G", "YOU", "FUKU", "FU", "NI", "MISC"}

\* NickSetRecord: a set type used on 1 or on 31 days
NickSetSamples ==
    { [set_type |-> t, day_count |-> d] :
        t \in {"FW_A", "FW_D", "FW_G", "FUKU", "NI", "MISC"}, d \in {1, 31} }

InitPrice ==
    /\ pc = "start"
    /\ config \in PriceConfigs
    /\ nick_set_type = ""
    /\ nick_price = None
    /\ nick_record \in
         { [station |-> "ST", user_id |-> "U1", name |-> <<"A">>, sets |-> sets] :
             sets \in SeqsUpTo(NickSetSamples, MaxSets) }
    /\ nick_totals = None
    /\ rx_row = None
    /\ meal_amount = None
    /\ diaper_amount = None
    /\ supply_amount = None
    /\ is_new_month = FALSE
    /\ result = None
    /\ rx_rows = <<>>
    /\ meal_by_room = <<>>
    /\ nick_by_room = <<>>
    /\ results = <<>>
    /\ nick_records = <<>>
    /\ room_name_map = <<>>
    /\ unmatched = <<>>
    /\ target_name = <<>>
    /\ candidates = <<>>
    /\ best = None
    /\ NamesIdle /\ MergeIdle /\ MainIdle /\ RestIdle

CalcNickBillingPrice ==
    /\ pc = "start"
    /\ \E t \in SetTypeSamples :
          /\ nick_set_type' = t
          /\ nick_price' = calc_nick_billing_price(t, config)
    /\ pc' = "priced"
    /\ UNCHANGED <<nick_record, nick_totals, billingVars, nickVars, namesVars,
                   mergeVars, mainVars,
                   restVars>>

CalcNickBilling ==
    /\ pc = "priced"
    /\ nick_totals' = calc_nick_billing(nick_record, config)
    /\ pc' = "done"
    /\ UNCHANGED <<nick_set_type, nick_price, nick_record, billingVars,
                   nickVars, namesVars, mergeVars, mainVars,
                   restVars>>

NextPrice == CalcNickBillingPrice \/ CalcNickBilling

SpecPrice == InitPrice /\ [][NextPrice]_vars

\* the total of the first n sets of the record over the set types of one
\* category: day_count x price for the sets with a price
RECURSIVE CategoryTotal(_, _)
CategoryTotal(n, category) ==
    IF n = 0 THEN 0
    ELSE
        LET s == nick_record.sets[n]
            p == calc_nick_billing_price(s.set_type, config)
        IN  CategoryTotal(n - 1, category)
              + (IF p # None /\ s.set_type \in category
                 THEN s.day_count * p[1] ELSE 0)

\* C12: calc_nick_billing returns (diaper_total, supply_total) where every
\* set with a price adds day_count x price to the diaper total if its type is
\* a diaper set, to the supply total if it is a supply set and to neither
\* otherwise; a set without override and base price adds nothing and the
\* other sets of the record are still summed.
Thm_C12_CategoryTotals ==
    pc = "done" =>
        nick_totals = <<CategoryTotal(Len(nick_record.sets), DIAPER_SETS),
                        CategoryTotal(Len(nick_record.sets), SUPPLY_SETS)>>

\* a G set without a price followed by a 福 set on 31 days
Wit_C12_UnknownThenSupply ==
    /\ pc = "done"
    /\ config = BaseConfig
    /\ nick_record.sets = <<[set_type |-> "FW_G", day_count |-> 1],
                            [set_type |-> "FUKU", day_count |-> 31]>>
    /\ nick_totals = <<0, 2263>>

-----------------------------------------------------------------------------
(* calc_all_nick on several usage records of one facility *)

MaxRecords == 2

\* roster names of the facility: A, AB, BB and a blank
FacilityNameSamples ==
    { <<"A">>, <<"A", "FW_B">>, <<"FW_B", "FW_B">>, <<"SPACE_FW">> }

\* usage records named A, AB or C, without sets, with the 福 set on 31 days
\* or with the D set on one day
NickRecordSamples ==
    { [station |-> "ST", user_id |-> "U1", name |-> n, sets |-> sets] :
        n \in { <<"A">>, <<"A", "B">>, <<"C">> },
        sets \in { <<>>,
                   <<[set_type |-> "FUKU", day_count |-> 31]>>,
                   <<[set_type |-> "FW_D", day_count |-> 1]>> } }

InitNickAll ==
    /\ pc = "start"
    /\ config = BaseConfig
    /\ target_name = <<>>
    /\ candidates \in SeqsUpTo(FacilityNameSamples, MaxRooms)
    /\ nick_records \in SeqsUpTo(NickRecordSamples, MaxRecords)
    /\ room_name_map = [i \in 1..Len(candidates) |-> <<RoomLabels[i], candidates[i]>>]
    /\ nick_by_room = <<>>
    /\ unmatched = <<>>
    /\ best = None
    /\ rx_row = None
    /\ meal_amount = None
    /\ diaper_amount = None
    /\ supply_amount = None
    /\ is_new_month = FALSE
    /\ result = None
    /\ rx_rows = <<>>
    /\ meal_by_room = <<>>
    /\ results = <<>>
    /\ NamesIdle /\ PriceIdle /\ MergeIdle /\ MainIdle /\ RestIdle

NextNickAll == CalcAllNick

SpecNickAll == InitNickAll /\ [][NextNickAll]_vars

\* the totals of the i-th usage record and the room its name resolves to
RecordTotals(i) == calc_nick_billing(nick_records[i], config)

Billed(i) == RecordTotals(i)[1] # 0 \/ RecordTotals(i)[2] # 0

RecordRoom(i) ==
    ResolveRoom(BuildNameToRoom(room_name_map, <<>>),
                normalize_name(nick_records[i].name))

\* component k of the totals of the first n records that are billed and
\* resolve to the room
RECURSIVE RoomSum(_, _, _)
RoomSum(n, room, k) ==
    IF n = 0 THEN 0
    ELSE RoomSum(n - 1, room, k)
           + (IF Billed(n) /\ RecordRoom(n) = Some(room)
              THEN RecordTotals(n)[k] ELSE 0)

\* C14: every room of calc_all_nick's result holds the component-wise sum of
\* calc_nick_billing over exactly the billed records that resolve to it,
\* every key is a room of room_name_map with a non-empty name, and records
\* whose totals are both zero add no entry.
Thm_C14_SummedPerRoom ==
    pc = "matched" =>
        /\ DOMAIN nick_by_room =
              {RoomLabels[j] : j \in {j \in 1..Len(room_name_map) :
                  \E i \in 1..Len(nick_records) :
                      Billed(i) /\ RecordRoom(i) = Some(RoomLabels[j])}}
        /\ \A r \in DOMAIN nick_by_room :
              /\ nick_by_room[r] = <<RoomSum(Len(nick_records), r, 1),
                                     RoomSum(Len(nick_records), r, 2)>>
              /\ \E j \in 1..Len(room_name_map) :
                    room_name_map[j][1] = r /\ room_name_map[j][2] # <<>>

\* two records of the resident of room 101, one with a supply set and one
\* with a diaper set
Wit_C14_TwoRecordsOneRoom ==
    /\ pc = "matched"
    /\ Len(nick_records) = 2
    /\ Billed(1) /\ Billed(2)
    /\ RecordRoom(1) = Some("101") /\ RecordRoom(2) = Some("101")
    /\ nick_by_room = ("101" :> <<363, 2263>>)

\* the billed records that resolve to no room, by index
Unresolved == {i \in 1..Len(nick_records) : Billed(i) /\ RecordRoom(i) = None}

\* C15: a billed record matching no roster entry under any tier adds to no
\* room, is kept in the unmatched list, and the records after it are still
\* processed.
Thm_C15_UnmatchedKept ==
    pc = "matched" =>
        /\ Len(unmatched) = Cardinality(Unresolved)
        /\ \A i \in Unresolved :
              unmatched[Cardinality({j \in Unresolved : j <= i})] = nick_records[i]
        /\ (\A i \in 1..Len(nick_records) : Billed(i) => i \in Unresolved)
              => nick_by_room = <<>>
        /\ \A i \in 1..Len(nick_records) :
              (Billed(i) /\ i \notin Unresolved) =>
                  /\ RecordRoom(i)[1] \in DOMAIN nick_by_room
                  /\ nick_by_room[RecordRoom(i)[1]][1] >= RecordTotals(i)[1]
                  /\ nick_by_room[RecordRoom(i)[1]][2] >= RecordTotals(i)[2]

\* an unmatched record followed by one that resolves to room 101
Wit_C15_UnmatchedThenMatched ==
    /\ pc = "matched"
    /\ Len(nick_records) = 2
    /\ Unresolved = {1}
    /\ unmatched = <<nick_records[1]>>
    /\ Billed(2) /\ RecordRoom(2) = Some("101")
    /\ nick_by_room = ("101" :> RecordTotals(2))

-----------------------------------------------------------------------------
(* calc/meal_calc.py *)

\* the defaults of meal_prices
DefaultBreakfastPrice == 330

DefaultLunchPrice == 550

DefaultDinnerPrice == 550

\* calc_meal_billing returning the sheet's reference amount when it has one
calc_meal_billing_from_sheet(r, cfg) ==
    IF r.excel_billing # None THEN r.excel_billing[1]
    ELSE r.breakfast_count * DefaultBreakfastPrice
           + r.lunch_count * DefaultLunchPrice
           + r.dinner_count * DefaultDinnerPrice

\* MealRecord.calc_billing with the configured prices
calc_meal_billing(r, cfg) ==
    LET prices == ConfigGet(cfg, "meal_prices", <<>>)
    IN  r.breakfast_count * ConfigGet(prices, "breakfast", DefaultBreakfastPrice)
          + r.lunch_count * ConfigGet(prices, "lunch", DefaultLunchPrice)
          + r.dinner_count * ConfigGet(prices, "dinner", DefaultDinnerPrice)

\* MealRecord.is_empty
MealIsEmpty(r) == r.breakfast_count + r.lunch_count + r.dinner_count = 0

\* the loop of calc_all_meals: result[r.room] = calc_meal_billing(r, config)
RECURSIVE MealLoop(_, _, _)
MealLoop(records, cfg, res) ==
    IF records = <<>> THEN res
    ELSE
        LET r == Head(records)
        IN  IF MealIsEmpty(r) \/ r.room = ""
            THEN MealLoop(Tail(records), cfg, res)
            ELSE MealLoop(Tail(records), cfg,
                          IF r.room \in DOMAIN res
                          THEN [res EXCEPT ![r.room] = calc_meal_billing(r, cfg)]
                          ELSE (r.room :> calc_meal_billing(r, cfg)) @@ res)

calc_all_meals(records, cfg) == MealLoop(records, cfg, <<>>)

-----------------------------------------------------------------------------
(* main.py, phase 2: the computation loop over the loaded facilities *)

\* {rx.room: rx.name for rx in rx_rows if rx.room and rx.name}
RECURSIVE RoomNameMap(_, _)
RoomNameMap(rows, acc) ==
    IF rows = <<>> THEN acc
    ELSE
        LET rx == Head(rows)
        IN  RoomNameMap(Tail(rows),
                        IF rx.room # "" /\ rx.name # <<>>
                        THEN DictSetSeq(acc, rx.room, rx.name)
                        ELSE acc)

\* meals_by_facility.get(fname, [])
MealRecordsOf(fname) ==
    IF fname \in DOMAIN meals THEN meals[fname] ELSE <<>>

\* the nick_by_room of the k-th facility of masters_by_facility
FacilityNick(k) ==
    calc_all_nick(nick_records, RoomNameMap(masters[k].rx_rows, <<>>), config).result

\* the billings of the k-th facility of masters_by_facility
FacilityBillings(k) ==
    build_all_billings(masters[k].rx_rows,
                       calc_all_meals(MealRecordsOf(masters[k].fname), config),
                       FacilityNick(k), config, FALSE)

MaxFacilities == 2

\* the keys of config["facilities"], in order
FacilityNames == <<"F1", "F2", "F3">>

\* an occupied ledger row and a vacant one
OccupiedRow(room, name) == MkRow(room, name, "full", None, None, <<>>)

VacantRow(room) == MkRow(room, <<>>, "blank", None, None, <<>>)

\* MealRecord of a room with the given counts
MkMeal(room, b, l, d) ==
    [ room |-> room, name |-> <<"A">>, breakfast_count |-> b,
      lunch_count |-> l, dinner_count |-> d, excel_billing |-> None ]

\* what a facility's sources hold: the ledger rows and the meal records
FacilitySamples ==
    { [rx_rows |-> <<OccupiedRow("101", <<"A">>)>>,
       meal_records |-> <<MkMeal("101", 0, 30, 0)>>],
      [rx_rows |-> <<OccupiedRow("101", <<"A">>),
                     OccupiedRow("102", <<"A", "FW_B">>)>>,
       meal_records |-> <<MkMeal("102", 31, 22, 31), MkMeal("101", 0, 0, 0)>>],
      [rx_rows |-> <<OccupiedRow("201", <<"A">>)>>,
       meal_records |-> <<>>],
      [rx_rows |-> <<VacantRow("101"), OccupiedRow("102", <<"FW_B", "FW_B">>)>>,
       meal_records |-> <<MkMeal("", 1, 1, 1)>>],
      [rx_rows |-> <<>>,
       meal_records |-> <<>>] }

\* the usage records of the shared file
SharedRecordSamples ==
    { [station |-> "ST", user_id |-> "U1", name |-> <<"A">>,
       sets |-> <<[set_type |-> "FUKU", day_count |-> 31]>>],
      [station |-> "ST", user_id |-> "U2", name |-> <<"A", "B">>,
       sets |-> <<[set_type |-> "FW_D", day_count |-> 1]>>],
      [station |-> "ST", user_id |-> "U3", name |-> <<"C">>,
       sets |-> <<[set_type |-> "FUKU", day_count |-> 31]>>],
      [station |-> "ST", user_id |-> "U4", name |-> <<"A">>,
       sets |-> <<>>] }

\* phase 2 entered with a masters_by_facility that holds (residents, rx_rows)
\* of the loaded facilities; the loading itself is modelled in SpecRun
InitMain ==
    /\ pc = "start"
    /\ config = BaseConfig
    /\ \E k \in 0..MaxFacilities :
          \E f \in [1..k -> FacilitySamples] :
              /\ masters = [i \in 1..k |->
                              [fname |-> FacilityNames[i], residents |-> <<>>,
                               rx_rows |-> f[i].rx_rows]]
              /\ meals = [n \in {FacilityNames[i] : i \in 1..k} |->
                            f[CHOOSE i \in 1..k : FacilityNames[i] = n].meal_records]
    /\ nick_records \in SeqsUpTo(SharedRecordSamples, MaxRecords)
    /\ all_nick = <<>>
    /\ all_billings = <<>>
    /\ room_name_map = <<>>
    /\ nick_by_room = <<>>
    /\ unmatched = <<>>
    /\ target_name = <<>>
    /\ candidates = <<>>
    /\ best = None
    /\ rx_row = None
    /\ meal_amount = None
    /\ diaper_amount = None
    /\ supply_amount = None
    /\ is_new_month = FALSE
    /\ result = None
    /\ rx_rows = <<>>
    /\ meal_by_room = <<>>
    /\ results = <<>>
    /\ NamesIdle /\ PriceIdle /\ MergeIdle /\ RestIdle

\* one iteration of "for fname, (residents, rx_rows) in masters_by_facility.items()"
ComputeFacility ==
    /\ pc = "start"
    /\ Len(all_billings) < Len(masters)
    /\ LET k == Len(all_billings) + 1
       IN  /\ all_nick' = Append(all_nick, FacilityNick(k))
           /\ all_billings' = Append(all_billings,
                                     <<masters[k].fname, FacilityBillings(k)>>)
    /\ UNCHANGED <<pc, masters, meals, config, rx_row, meal_amount,
                   diaper_amount, supply_amount, is_new_month, result, rx_rows,
                   meal_by_room, results, nickVars, namesVars, priceVars,
                   mergeVars,
                   restVars>>

\* the loop is exhausted
FinishCompute ==
    /\ pc = "start"
    /\ Len(all_billings) = Len(masters)
    /\ pc' = "done"
    /\ UNCHANGED <<billingVars, nickVars, namesVars, priceVars, mergeVars,
                   mainVars,
                   restVars>>

NextMain == ComputeFacility \/ FinishCompute

SpecMain == InitMain /\ [][NextMain]_vars

\* component c of the totals over the rooms S of one facility's map
RECURSIVE MapSum(_, _, _)
MapSum(map, S, c) ==
    IF S = {} THEN 0
    ELSE LET r == CHOOSE r \in S : TRUE
         IN  map[r][c] + MapSum(map, S \ {r}, c)

\* component c of the totals over the maps of the first k facilities
RECURSIVE GrandTotal(_, _)
GrandTotal(k, c) ==
    IF k = 0 THEN 0
    ELSE GrandTotal(k - 1, c) + MapSum(all_nick[k], DOMAIN all_nick[k], c)

\* the facilities whose roster the i-th usage record's name matches
MatchingFacilities(i) ==
    {k \in 1..Len(masters) :
        ResolveRoom(BuildNameToRoom(RoomNameMap(masters[k].rx_rows, <<>>), <<>>),
                    normalize_name(nick_records[i].name)) # None}

\* component c of the totals of the first n records, each billed record that
\* matches some facility counted once
RECURSIVE AttributedOnce(_, _)
AttributedOnce(n, c) ==
    IF n = 0 THEN 0
    ELSE AttributedOnce(n - 1, c)
           + (IF MatchingFacilities(n) # {} THEN RecordTotals(n)[c] ELSE 0)

-----------------------------------------------------------------------------
(* calc/billing.py merge_residents_into_rx *)
(* Room labels are sequences of one-character tokens here: the merge parses *)
(* and compares them.  BATSU is U+2715, TIMES is U+00D7, GOU KEI is the      *)
(* totals label.                                                             *)

\* the room label of the grand-total row
TotalsLabel == <<"GOU", "KEI">>

\* "✕" in room or "×" in room
IsRetired(room) == \E i \in 1..Len(room) : room[i] \in {"BATSU", "TIMES"}

\* int(room) succeeds: a non-empty run of digits
IsNumericRoom(room) == room # <<>> /\ \A i \in 1..Len(room) : IsDigit(room[i])

\* the code point of a character, the order of Python's string comparison
CodePoint(c) ==
    CASE IsDigit(c) -> 48 + DigitVal(c)
      [] c = "A" -> 65
      [] c = "B" -> 66
      [] c = "TIMES" -> 215
      [] c = "BATSU" -> 10005
      [] c = "GOU" -> 21512
      [] c = "KEI" -> 35336

\* a < b on strings
RECURSIVE StrLess(_, _)
StrLess(a, b) ==
    IF b = <<>> THEN FALSE
    ELSE IF a = <<>> THEN TRUE
    ELSE IF Head(a) # Head(b) THEN CodePoint(Head(a)) < CodePoint(Head(b))
    ELSE StrLess(Tail(a), Tail(b))

\* _room_sort_key: (1, room) for a retired room, else (0, int(room)) or,
\* when int() raises ValueError, (0, room)
RoomSortKey(rx) ==
    IF IsRetired(rx.room) THEN [tier |-> 1, kind |-> "str", num |-> 0, str |-> rx.room]
    ELSE IF IsNumericRoom(rx.room)
    THEN [tier |-> 0, kind |-> "int", num |-> ToInt(rx.room), str |-> <<>>]
    ELSE [tier |-> 0, kind |-> "str", num |-> 0, str |-> rx.room]

\* k1 < k2 on the key tuples; the second components are compared only when
\* the first are equal
KeyLess(k1, k2) ==
    IF k1.tier # k2.tier THEN k1.tier < k2.tier
    ELSE IF k1.kind = "int" THEN k1.num < k2.num
    ELSE StrLess(k1.str, k2.str)

\* the sort compares an int with a str: two keys of tier 0, one of each kind
SortRaisesTypeError(rows) ==
    \E i, j \in 1..Len(rows) :
        /\ RoomSortKey(rows[i]).tier = 0 /\ RoomSortKey(rows[j]).tier = 0
        /\ RoomSortKey(rows[i]).kind = "int" /\ RoomSortKey(rows[j]).kind = "str"

\* insertion of rx behind the rows whose key is not greater (a stable sort)
InsertByKey(sorted, rx) ==
    LET n == Cardinality({i \in 1..Len(sorted) :
                            ~KeyLess(RoomSortKey(rx), RoomSortKey(sorted[i]))})
    IN  SubSeq(sorted, 1, n) \o <<rx>> \o SubSeq(sorted, n + 1, Len(sorted))

\* merged.sort(key=_room_sort_key) on rows whose keys are comparable
RECURSIVE SortByRoom(_, _)
SortByRoom(rows, sorted) ==
    IF rows = <<>> THEN sorted
    ELSE SortByRoom(Tail(rows), InsertByKey(sorted, Head(rows)))

\* [rx for rx in rx_rows if rx.room != "合計"]
RECURSIVE FilterTotals(_)
FilterTotals(rows) ==
    IF rows = <<>> THEN <<>>
    ELSE IF Head(rows).room # TotalsLabel
    THEN <<Head(rows)>> \o FilterTotals(Tail(rows))
    ELSE FilterTotals(Tail(rows))

\* rx_by_room[room] as an index into rx_rows: the last row of that room that
\* is not the totals row, 0 if the room has no row
RxIndexByRoom(rows, room) ==
    LET hits == {i \in 1..Len(rows) :
                    /\ rows[i].room # TotalsLabel
                    /\ rows[i].room # <<>>
                    /\ rows[i].room = room}
    IN  IF hits = {} THEN 0 ELSE CHOOSE i \in hits : \A j \in hits : j <= i

\* resident_map without the test for the retired mark
RECURSIVE ResidentMapWithRetired(_, _)
ResidentMapWithRetired(roster, acc) ==
    IF roster = <<>> THEN acc
    ELSE
        LET res == Head(roster)
        IN  ResidentMapWithRetired(Tail(roster),
                        IF res.room = <<>> \/ res.name = <<>> THEN acc
                        ELSE DictSetSeq(acc, res.room, res.name))

\* resident_map: the roster entries with room and name whose room is not
\* retired, in insertion order
RECURSIVE ResidentMap(_, _)
ResidentMap(roster, acc) ==
    IF roster = <<>> THEN acc
    ELSE
        LET res == Head(roster)
        IN  ResidentMap(Tail(roster),
                        IF res.room = <<>> \/ res.name = <<>> THEN acc
                        ELSE IF IsRetired(res.room) THEN acc
                        ELSE DictSetSeq(acc, res.room, res.name))

\* fixed.get(key) as a ledger value
FixedGet(fixed, key) == IF key \in DOMAIN fixed THEN Some(fixed[key]) ELSE None

\* the five fixed charges of a row set to the configured defaults
WithFixedCharges(rx, fixed) ==
    [rx EXCEPT !.rent = FixedGet(fixed, "rent"),
               !.management = FixedGet(fixed, "management"),
               !.common = FixedGet(fixed, "common"),
               !.water = FixedGet(fixed, "water"),
               !.utility = FixedGet(fixed, "utility")]

\* RxRow(room=room, name=name, rent=fixed.get("rent"), ...)
NewRx(room, name, fixed) ==
    WithFixedCharges(MkRow(room, name, "blank", None, None, None), fixed)

\* the update of an existing row by its roster name
UpdateExisting(existing, name, fixed) ==
    LET was_empty == existing.name = <<>>
        named == IF was_empty /\ name # <<>>
                 THEN [existing EXCEPT !.name = name] ELSE existing
        needs_charges == \/ was_empty /\ named.name # <<>>
                         \/ named.name # <<>> /\ named.rent = None
    IN  IF needs_charges THEN WithFixedCharges(named, fixed) ELSE named

\* the loop over resident_map.items(): the ledger rows as updated in place
\* and the rows appended to merged
RECURSIVE MergeLoop(_, _, _, _)
MergeLoop(resident_map, rows, appended, fixed) ==
    IF resident_map = <<>> THEN [rows |-> rows, appended |-> appended]
    ELSE
        LET room == Head(resident_map)[1]
            name == Head(resident_map)[2]
            i == RxIndexByRoom(rows, room)
        IN  IF i # 0
            THEN MergeLoop(Tail(resident_map),
                           [rows EXCEPT ![i] = UpdateExisting(rows[i], name, fixed)],
                           appended, fixed)
            ELSE MergeLoop(Tail(resident_map), rows,
                           Append(appended, NewRx(room, name, fixed)), fixed)

\* merge_residents_into_rx: the ledger rows after the in-place updates and
\* what the call gives back, the sorted rows or the TypeError of the sort
merge_residents_into_rx(roster, rows, cfg) ==
    LET out == MergeLoop(ResidentMap(roster, <<>>), rows, <<>>,
                         ConfigGet(cfg, "fixed_charges", <<>>))
        unsorted == FilterTotals(out.rows) \o out.appended
    IN  [ rx_rows |-> out.rows,
          raised |-> SortRaisesTypeError(unsorted),
          rows |-> IF SortRaisesTypeError(unsorted) THEN <<>>
                   ELSE SortByRoom(unsorted, <<>>) ]

-----------------------------------------------------------------------------
(* merge_residents_into_rx on a facility's roster and ledger *)

\* room labels: 608 and 1006 (numeric, in the other order as strings), 2A,
\* and the retired rooms 703✕ and 5×
R608 == <<"6", "0", "8">>

R1006 == <<"1", "0", "0", "6">>

R2A == <<"2", "A">>

R703X == <<"7", "0", "3", "BATSU">>

R5X == <<"5", "TIMES">>

\* a configuration with all five default fixed charges
FixedConfig ==
    BaseConfig @@
    [fixed_charges |-> [rent |-> 50000, management |-> 20000, common |-> 10000,
                        water |-> 3000, utility |-> 8000]]

\* ledger rows: for room 608 a vacant slot, a blank-named row with configured
\* charges and a named row lacking only the rent; occupied rows of a numeric
\* and of an alphanumeric room; the vacated row of a retired room; the
\* totals row
MergeRowSamples ==
    { MkRow(R608, <<>>, "blank", None, None, <<>>),
      MkRow(R608, <<>>, "full", None, None, <<>>),
      [MkRow(R608, <<"A">>, "full", None, None, <<>>) EXCEPT !.rent = None],
      MkRow(R1006, <<"A">>, "full", None, None, <<>>),
      MkRow(R2A, <<"A">>, "full", None, None, <<>>),
      MkRow(R703X, <<>>, "blank", None, None, <<>>),
      MkRow(TotalsLabel, <<>>, "full", None, None, <<>>) }

\* ledgers: a room has one row per sheet
LedgerSamples ==
    { l \in SeqsUpTo(MergeRowSamples, MaxRows) :
        \A i, j \in 1..Len(l) : i # j => l[i].room # l[j].room }

\* ResidentMaster entries: rooms with a name, one without, a retired room
ResidentSamples ==
    { [room |-> R608, name |-> <<"B">>],
      [room |-> R608, name |-> <<>>],
      [room |-> R1006, name |-> <<"B">>],
      [room |-> R2A, name |-> <<"B">>],
      [room |-> R5X, name |-> <<"B">>],
      [room |-> R703X, name |-> <<"B">>] }

\* rosters: a room is listed once per facility
RosterSamples ==
    { r \in SeqsUpTo(ResidentSamples, MaxRooms) :
        \A i, j \in 1..Len(r) : i # j => r[i].room # r[j].room }

InitMerge ==
    /\ pc = "start"
    /\ config \in {FixedConfig, BaseConfig}
    /\ residents \in RosterSamples
    /\ rx_rows \in LedgerSamples
    /\ merged = None
    /\ rx_row = None
    /\ meal_amount = None
    /\ diaper_amount = None
    /\ supply_amount = None
    /\ is_new_month = FALSE
    /\ result = None
    /\ meal_by_room = <<>>
    /\ nick_by_room = <<>>
    /\ results = <<>>
    /\ nick_records = <<>>
    /\ room_name_map = <<>>
    /\ unmatched = <<>>
    /\ target_name = <<>>
    /\ candidates = <<>>
    /\ best = None
    /\ NamesIdle /\ PriceIdle /\ MainIdle /\ RestIdle

\* the call: the ledger rows are updated in place, the result is the sorted
\* list or the TypeError
MergeResidents ==
    /\ pc = "start"
    /\ LET out == merge_residents_into_rx(residents, rx_rows, config)
       IN  /\ rx_rows' = out.rx_rows
           /\ merged' = [raised |-> out.raised, rows |-> out.rows]
    /\ pc' = "done"
    /\ UNCHANGED <<residents, config, rx_row, meal_amount, diaper_amount,
                   supply_amount, is_new_month, result, meal_by_room, results,
                   nickVars, namesVars, priceVars, mainVars,
                   restVars>>

NextMerge == MergeResidents

SpecMerge == InitMerge /\ [][NextMerge]_vars

\* the five fixed-charge columns
FixedChargeFields == {"rent", "management", "common", "water", "utility"}

\* the configured default of a fixed charge, absent when not configured
DefaultCharge(f) ==
    IF "fixed_charges" \in DOMAIN config /\ f \in DOMAIN config.fixed_charges
    THEN <<config.fixed_charges[f]>> ELSE <<>>

\* the roster entries the merge has to insert: named, not retired, and
\* without a row in the ledger
ToInsert ==
    {k \in 1..Len(residents) :
        /\ residents[k].name # <<>>
        /\ \A c \in 1..Len(residents[k].room) :
              residents[k].room[c] \notin {"BATSU", "TIMES"}
        /\ \A i \in 1..Len(rx_rows) : rx_rows[i].room # residents[k].room}

\* row rx is a fresh row for roster entry k: its name, the default fixed
\* charges and nothing else
FreshRowFor(rx, k) ==
    /\ rx.room = residents[k].room
    /\ rx.name = residents[k].name
    /\ \A f \in FixedChargeFields : rx[f] = DefaultCharge(f)
    /\ \A f \in DOMAIN rx \ (FixedChargeFields \cup {"room", "name"}) : rx[f] = <<>>

\* C17 (as claimed): for every roster entry with a name whose room is not
\* retired and has no ledger row, the rows returned by the merge hold exactly
\* one row of that room, and it carries the roster name, the default fixed
\* charges and no other field.
Cex_C17_OneFreshRowPerNewResident ==
    pc = "done" =>
        \A k \in ToInsert :
            /\ ~merged.raised
            /\ Cardinality({i \in 1..Len(merged.rows) :
                              merged.rows[i].room = residents[k].room}) = 1
            /\ \A i \in 1..Len(merged.rows) :
                  merged.rows[i].room = residents[k].room
                      => FreshRowFor(merged.rows[i], k)

\* the room label carries a retired mark
RetiredLabel(room) == \E c \in 1..Len(room) : room[c] \in {"BATSU", "TIMES"}

\* the rows of a sequence, as a set
RowsOf(rows) == {rows[i] : i \in 1..Len(rows)}

\* row rx after the call has the name and the fixed charges of row old
SameNameAndCharges(rx, old) ==
    /\ rx.name = old.name
    /\ \A f \in FixedChargeFields : rx[f] = old[f]

\* C18: the rows returned by the merge hold a retired-marked room only if
\* that row was in the input ledger, and neither a row of a retired-marked
\* room nor any row when the roster holds only retired-marked entries has its
\* name or fixed charges changed.
Thm_C18_RetiredNeverInserted ==
    [][(pc = "start" /\ pc' = "done") =>
        /\ \A i \in 1..Len(merged'.rows) :
              RetiredLabel(merged'.rows[i].room) => merged'.rows[i] \in RowsOf(rx_rows)
        /\ \A j \in 1..Len(rx_rows) :
              RetiredLabel(rx_rows[j].room) => SameNameAndCharges(rx_rows'[j], rx_rows[j])
        /\ (\A k \in 1..Len(residents) : RetiredLabel(residents[k].room)) =>
              \A j \in 1..Len(rx_rows) : SameNameAndCharges(rx_rows'[j], rx_rows[j])
      ]_vars

\* a roster naming residents for the retired rooms 703✕ and 5× over a ledger
\* with the vacated row of 703✕: the row stays blank and 5× is not inserted
Wit_C18_RetiredRosterEntrySkipped ==
    /\ pc = "done"
    /\ residents = <<[room |-> R703X, name |-> <<"B">>],
                     [room |-> R5X, name |-> <<"B">>]>>
    /\ Len(rx_rows) = 1 /\ rx_rows[1].room = R703X
    /\ ~merged.raised
    /\ Len(merged.rows) = 1
    /\ merged.rows[1].room = R703X /\ merged.rows[1].name = <<>>

\* C19 (as claimed): on an existing row of an active roster room the name is
\* replaced only if it was blank and the five fixed charges are set to the
\* defaults only if all five were absent; a row with any fixed charge
\* configured keeps all five, also when its blank name is filled in; no other
\* field of an existing row changes.
Cex_C19_ChargesOnlyWhenAbsent ==
    [][(pc = "start" /\ pc' = "done") =>
        \A j \in 1..Len(rx_rows) :
            /\ rx_rows'[j].name # rx_rows[j].name => rx_rows[j].name = <<>>
            /\ (\E f \in FixedChargeFields : rx_rows[j][f] # <<>>) =>
                  \A f \in FixedChargeFields : rx_rows'[j][f] = rx_rows[j][f]
            /\ \A f \in DOMAIN rx_rows[j] \ (FixedChargeFields \cup {"name"}) :
                  rx_rows'[j][f] = rx_rows[j][f]
      ]_vars

\* a <= b in Python's string order
LexLeq(a, b) ==
    \/ Len(a) <= Len(b) /\ \A c \in 1..Len(a) : a[c] = b[c]
    \/ \E c \in 1..Len(a) :
          /\ c <= Len(b)
          /\ \A d \in 1..(c - 1) : a[d] = b[d]
          /\ a[c] # b[c]
          /\ CodePoint(a[c]) < CodePoint(b[c])

\* the room label is purely numeric
NumericLabel(room) ==
    room # <<>> /\ \A c \in 1..Len(room) : \E v \in 1..10 : Digits[v] = room[c]

\* C20 (as claimed): for every roster and ledger, also with numeric and
\* alphanumeric rooms side by side, the merge completes and returns the rows
\* sorted: numeric rooms ascending by value, alphanumeric rooms in string
\* order, retired-marked rooms behind all others.
Cex_C20_CompletesSorted ==
    pc = "done" =>
        /\ ~merged.raised
        /\ \A i, j \in 1..Len(merged.rows) :
              i < j =>
                LET a == merged.rows[i].room
                    b == merged.rows[j].room
                IN  /\ RetiredLabel(a) => RetiredLabel(b)
                    /\ (~RetiredLabel(a) /\ ~RetiredLabel(b)
                          /\ NumericLabel(a) /\ NumericLabel(b))
                         => ToInt(a) <= ToInt(b)
                    /\ (~RetiredLabel(a) /\ ~RetiredLabel(b)
                          /\ ~NumericLabel(a) /\ ~NumericLabel(b))
                         => LexLeq(a, b)

\* C21 (as claimed): the rows returned by the merge hold no totals row and
\* every other ledger row exactly once, so that the billing results built
\* from them hold none for the totals label.
Cex_C21_TotalsDroppedOthersKept ==
    pc = "done" =>
        /\ \A i \in 1..Len(merged.rows) : merged.rows[i].room # TotalsLabel
        /\ \A j \in 1..Len(rx_rows) :
              rx_rows[j].room # TotalsLabel =>
                  Cardinality({i \in 1..Len(merged.rows) :
                                  merged.rows[i] = rx_rows[j]}) = 1
        /\ LET billings == build_all_billings(merged.rows, <<>>, <<>>, config, FALSE)
           IN  \A i \in 1..Len(billings) : billings[i].room # TotalsLabel

-----------------------------------------------------------------------------
(* readers/master_reader.py: RxRow.welfare_limit over notes texts *)

MaxParts == 3

\* pieces of notes text before any "+"
NoteParts ==
    { <<"9">>, <<"0">>, <<"1", "0", "0", "0", "0">>,
      <<"8", "0", ",", "0", "0", "0">>, <<"9", "9", "9", "9">>,
      <<"CIRCLE_WHITE">>, <<"CIRCLE_IDEO">>, <<" ">>, <<"x">>, <<"COMMA_FW">> }

\* what may follow: nothing, or a "+" and more text
NoteTails ==
    { <<>>, <<"+">>, <<"+", "2", "0", "0", "0", "0">>,
      <<"+", "3", "CIRCLE_WHITE">> }

RECURSIVE JoinParts(_)
JoinParts(ps) == IF ps = <<>> THEN <<>> ELSE Head(ps) \o JoinParts(Tail(ps))

\* two ledger rows whose notes agree up to the first "+"; at most one piece
\* is a number of several digits and no digit stands next to it, which keeps
\* every number read from the notes within the range of the model's integers
InitWelfare ==
    /\ pc = "start"
    /\ \E ps \in SeqsUpTo(NoteParts, MaxParts) : \E t1, t2 \in NoteTails :
          /\ Cardinality({ i \in 1..Len(ps) : Len(ps[i]) > 1 }) <= 1
          /\ \A i \in 1..Len(ps) : \A j \in {i - 1, i + 1} \cap (1..Len(ps)) :
                Len(ps[i]) > 1 => ~IsDigit(Head(ps[j]))
          /\ notes_pair = <<JoinParts(ps) \o t1, JoinParts(ps) \o t2>>
    /\ limit_pair = <<>>
    /\ config = BaseConfig
    /\ rx_row = None
    /\ meal_amount = None
    /\ diaper_amount = None
    /\ supply_amount = None
    /\ is_new_month = FALSE
    /\ result = None
    /\ rx_rows = <<>>
    /\ meal_by_room = <<>>
    /\ results = <<>>
    /\ nick_by_room = <<>>
    /\ nick_records = <<>>
    /\ room_name_map = <<>>
    /\ unmatched = <<>>
    /\ target_name = <<>>
    /\ candidates = <<>>
    /\ best = None
    /\ NamesIdle /\ PriceIdle /\ MergeIdle /\ MainIdle
    /\ MealIdle /\ LoadIdle /\ RunIdle

\* welfare_limit read on both rows
ReadWelfareLimit ==
    /\ pc = "start"
    /\ limit_pair' = <<WelfareLimit(notes_pair[1]), WelfareLimit(notes_pair[2])>>
    /\ pc' = "done"
    /\ UNCHANGED <<notes_pair, billingVars, nickVars, namesVars, priceVars,
                   mergeVars, mainVars, mealVars, loadVars, runVars>>

NextWelfare == ReadWelfareLimit

SpecWelfare == InitWelfare /\ [][NextWelfare]_vars

\* the decimal value of a run of digit tokens, read left to right
DigitOf ==
    [c \in {"0", "1", "2", "3", "4", "5", "6", "7", "8", "9"} |->
        CASE c = "0" -> 0 [] c = "1" -> 1 [] c = "2" -> 2 [] c = "3" -> 3
          [] c = "4" -> 4 [] c = "5" -> 5 [] c = "6" -> 6 [] c = "7" -> 7
          [] c = "8" -> 8 [] c = "9" -> 9]

RECURSIVE Decimal(_, _)
Decimal(acc, s) ==
    IF s = <<>> THEN acc ELSE Decimal(acc * 10 + DigitOf[Head(s)], Tail(s))

AllDigits(s, a, b) == \A i \in a..b : s[i] \in DOMAIN DigitOf

AllBlank(s, a, b) == \A i \in a..b : s[i] \in {" ", "SPACE_FW"}

\* the text without its ASCII and full-width commas
NoCommas(s) == SelectSeq(s, LAMBDA c : c \notin {",", "COMMA_FW"})

\* the maximal digit runs of s, as pairs of first and last position
NumberSpans(s) ==
    { sp \in (1..Len(s)) \X (1..Len(s)) :
        /\ sp[1] <= sp[2]
        /\ AllDigits(s, sp[1], sp[2])
        /\ (sp[1] = 1 \/ s[sp[1] - 1] \notin DOMAIN DigitOf)
        /\ (sp[2] = Len(s) \/ s[sp[2] + 1] \notin DOMAIN DigitOf) }

SpanValue(s, sp) == Decimal(0, SubSeq(s, sp[1], sp[2]))

\* C22, first case as claimed: the notes start with an integer immediately
\* followed by a circle glyph
StartsDigitsCircle(n) ==
    \E e \in 1..Len(n) :
        /\ AllDigits(n, 1, e)
        /\ e < Len(n)
        /\ n[e + 1] \in {"CIRCLE_WHITE", "CIRCLE_IDEO"}

LeadingInteger(n) ==
    LET e == CHOOSE e \in 1..Len(n) :
                 AllDigits(n, 1, e) /\ (e = Len(n) \/ n[e + 1] \notin DOMAIN DigitOf)
    IN  Decimal(0, SubSeq(n, 1, e))

\* the integers of at least 10,000 that the notes hold, commas dropped
LargeNumbers(n) ==
    { v \in { SpanValue(NoCommas(n), sp) : sp \in NumberSpans(NoCommas(n)) } :
        v >= 10000 }

\* C22 (as claimed): notes starting with an integer n immediately followed by
\* a circle glyph give n x 10,000; otherwise notes holding a plain or
\* comma-formatted integer of at least 10,000 give that integer; every other
\* notes value gives None.
Cex_C22_CircleElseLargeNumber ==
    pc = "done" =>
        LET n == notes_pair[1]
            lim == limit_pair[1]
        IN  IF StartsDigitsCircle(n) THEN lim = <<LeadingInteger(n) * 10000>>
            ELSE IF LargeNumbers(n) # {}
                 THEN lim # <<>> /\ lim[1] \in LargeNumbers(n)
            ELSE lim = <<>>

\* the text without the blanks at its two ends
Trimmed(s) ==
    LET inked == { i \in 1..Len(s) : s[i] \notin {" ", "SPACE_FW"} }
    IN  IF inked = {} THEN <<>>
        ELSE SubSeq(s, CHOOSE i \in inked : \A j \in inked : i <= j,
                       CHOOSE i \in inked : \A j \in inked : i >= j)

\* the text before the first "+"
BeforePlus(s) ==
    LET plus == { i \in 1..Len(s) : s[i] = "+" }
    IN  IF plus = {} THEN s
        ELSE SubSeq(s, 1, (CHOOSE i \in plus : \A j \in plus : i <= j) - 1)

\* an integer, then blanks or nothing, then a circle glyph
DigitsBlanksCircle(b) ==
    \E e \in 1..Len(b) : \E c \in (e + 1)..Len(b) :
        /\ AllDigits(b, 1, e)
        /\ AllBlank(b, e + 1, c - 1)
        /\ b[c] \in {"CIRCLE_WHITE", "CIRCLE_IDEO"}

\* the first number of the text
FirstNumber(s) ==
    LET sp == CHOOSE sp \in NumberSpans(s) :
                  \A other \in NumberSpans(s) : sp[1] <= other[1]
    IN  SpanValue(s, sp)

ExpectedLimit(n) ==
    LET b == Trimmed(BeforePlus(Trimmed(n)))
        whole == NoCommas(n)
    IN  IF DigitsBlanksCircle(b) THEN <<LeadingInteger(b) * 10000>>
        ELSE IF NumberSpans(whole) # {} /\ FirstNumber(whole) >= 10000
             THEN <<FirstNumber(whole)>>
        ELSE <<>>

\* C22 (amended): when the part of the notes before the first "+", blanks at
\* its ends dropped, starts with an integer n followed, after blanks or
\* nothing, by a circle glyph, welfare_limit is n x 10,000; otherwise it is
\* the first number of the whole notes with the commas dropped if that number
\* is at least 10,000; otherwise it is None.
Thm_C22_CircleElseFirstNumber ==
    pc = "done" => limit_pair[1] = ExpectedLimit(notes_pair[1])

\* C22 witness: a blank stands between the integer and the circle
Wit_C22_CircleAfterBlank ==
    /\ pc = "done"
    /\ notes_pair[1] = <<"9", " ", "CIRCLE_IDEO">>
    /\ limit_pair[1] = <<90000>>

\* C23 (as claimed): two notes texts that are identical up to the first "+"
\* give the same welfare_limit.
Cex_C23_TextAfterPlusIgnored ==
    (pc = "done" /\ BeforePlus(notes_pair[1]) = BeforePlus(notes_pair[2]))
        => limit_pair[1] = limit_pair[2]

-----------------------------------------------------------------------------
(* calc/meal_calc.py: calc_all_meals over meal records *)

\* config.yaml with all, one or none of the meal prices configured
MealConfigs ==
    { BaseConfig,
      BaseConfig @@ [meal_prices |-> [breakfast |-> 300, lunch |-> 500,
                                      dinner |-> 600]],
      BaseConfig @@ [meal_prices |-> [lunch |-> 0]] }

\* (breakfast_count, lunch_count, dinner_count) of a record
MealCountSamples == { <<0, 0, 0>>, <<31, 22, 31>>, <<0, 30, 0>>, <<1, 0, 0>> }

\* MealRecord: with and without a room, with and without the reference
\* amount of the sheet
MealRecordSamples ==
    { [ room |-> rm, name |-> <<"A">>, breakfast_count |-> c[1],
        lunch_count |-> c[2], dinner_count |-> c[3], excel_billing |-> x ] :
        rm \in {"", "101", "102"}, c \in MealCountSamples,
        x \in {None, Some(99999)} }

InitMeals ==
    /\ pc = "start"
    /\ config \in MealConfigs
    /\ meal_records \in SeqsUpTo(MealRecordSamples, MaxRecords)
    /\ meal_by_room = <<>>
    /\ rx_row = None
    /\ meal_amount = None
    /\ diaper_amount = None
    /\ supply_amount = None
    /\ is_new_month = FALSE
    /\ result = None
    /\ rx_rows = <<>>
    /\ results = <<>>
    /\ nick_by_room = <<>>
    /\ nick_records = <<>>
    /\ room_name_map = <<>>
    /\ unmatched = <<>>
    /\ target_name = <<>>
    /\ candidates = <<>>
    /\ best = None
    /\ NamesIdle /\ PriceIdle /\ MergeIdle /\ MainIdle
    /\ WelfareIdle /\ LoadIdle /\ RunIdle

\* meal_by_room = calc_all_meals(meal_records, config)
CalcAllMeals ==
    /\ pc = "start"
    /\ meal_by_room' = calc_all_meals(meal_records, config)
    /\ pc' = "done"
    /\ UNCHANGED <<config, rx_row, meal_amount, diaper_amount, supply_amount,
                   is_new_month, result, rx_rows, results, nickVars, namesVars,
                   priceVars, mergeVars, mainVars, meal_records, welfareVars,
                   loadVars, runVars>>

NextMeals == CalcAllMeals

SpecMeals == InitMeals /\ [][NextMeals]_vars

\* the configured price of a meal, or its default
MealPrice(key, default) ==
    IF "meal_prices" \in DOMAIN config /\ key \in DOMAIN config.meal_prices
    THEN config.meal_prices[key]
    ELSE default

\* the records that count: a room and at least one meal
Served ==
    { i \in 1..Len(meal_records) :
        /\ meal_records[i].room # ""
        /\ meal_records[i].breakfast_count + meal_records[i].lunch_count
             + meal_records[i].dinner_count # 0 }

MealCharge(i) ==
    meal_records[i].breakfast_count * MealPrice("breakfast", 330)
      + meal_records[i].lunch_count * MealPrice("lunch", 550)
      + meal_records[i].dinner_count * MealPrice("dinner", 550)

\* C24: the keys of calc_all_meals' map are exactly the rooms of the records
\* with a room and a non-zero meal count, and each room is mapped to the
\* counts times the configured or default prices of its record (of the last
\* such record when the room occurs twice); excel_billing plays no part.
Thm_C24_MealMap ==
    pc = "done" =>
        /\ DOMAIN meal_by_room = { meal_records[i].room : i \in Served }
        /\ \A i \in Served :
              (\A j \in Served : meal_records[j].room = meal_records[i].room
                                    => j <= i)
                  => meal_by_room[meal_records[i].room] = MealCharge(i)

\* C24 witness: a served record carrying a reference amount that differs
\* from its charge next to a record without meals and one without room
Wit_C24_ReferenceAmountUnused ==
    /\ pc = "done"
    /\ Len(meal_records) = 2
    /\ meal_records[1].room = "101"
    /\ meal_records[1].excel_billing = Some(99999)
    /\ meal_records[2].room = ""
    /\ 2 \notin Served
    /\ DOMAIN meal_by_room = {"101"}
    /\ meal_by_room["101"] = 31 * 330 + 22 * 550 + 31 * 550

-----------------------------------------------------------------------------
(* readers/master_reader.py: read_master_file and its sheet selection *)

MaxSheets == 3

\* str(n) of a non-negative int
RECURSIVE IntToDigits(_)
IntToDigits(n) ==
    IF n < 10 THEN <<Digits[n + 1]>>
    ELSE IntToDigits(n \div 10) \o <<Digits[(n % 10) + 1]>>

ReiwaOffset == 2018

\* utils/helpers.py to_reiwa_label: f"R{year - 2018}.{month}"
to_reiwa_label(year, month) ==
    <<"R">> \o IntToDigits(year - ReiwaOffset) \o <<".">> \o IntToDigits(month)

\* utils/helpers.py parse_reiwa_label: re.match(r"R(\d+)\.(\d+)", label) reads
\* a prefix of the label; None stands for the ValueError
parse_reiwa_label(label) ==
    IF label = <<>> \/ Head(label) # "R" THEN None
    ELSE
        LET d1 == DigitRun(Tail(label))
            rest == SubSeq(label, Len(d1) + 2, Len(label))
            d2 == IF rest = <<>> THEN <<>> ELSE DigitRun(Tail(rest))
        IN  IF d1 = <<>> \/ rest = <<>> \/ Head(rest) # "." \/ d2 = <<>>
            THEN None
            ELSE <<ReiwaOffset + ToInt(d1), ToInt(d2)>>

\* Python's tuple comparison (y, m) < (year, month)
YearMonthLess(a, b) == a[1] < b[1] \/ (a[1] = b[1] /\ a[2] < b[2])

\* _find_latest_rx_sheet without the sort: the first earlier sheet of the book
find_latest_rx_sheet_unsorted(sheetnames, year, month) ==
    LET earlier(n) == /\ parse_reiwa_label(n) # None
                      /\ YearMonthLess(parse_reiwa_label(n), <<year, month>>)
        cands == SelectSeq(sheetnames, earlier)
    IN  IF cands = <<>> THEN None ELSE cands[1]

\* _find_latest_rx_sheet: the first of the sheets with the greatest (y, m)
\* among those earlier than the target (the sort is stable), or None
find_latest_rx_sheet(sheetnames, year, month) ==
    LET earlier(n) == /\ parse_reiwa_label(n) # None
                      /\ YearMonthLess(parse_reiwa_label(n), <<year, month>>)
        cands == SelectSeq(sheetnames, earlier)
    IN  IF cands = <<>> THEN None
        ELSE
            LET i == CHOOSE i \in 1..Len(cands) :
                         /\ \A j \in 1..Len(cands) :
                               ~YearMonthLess(parse_reiwa_label(cands[i]),
                                              parse_reiwa_label(cands[j]))
                         /\ \A j \in 1..(i - 1) :
                               parse_reiwa_label(cands[j])
                                   # parse_reiwa_label(cands[i])
            IN  cands[i]

\* wb.sheetnames
SheetNames(book) == [i \in 1..Len(book) |-> book[i].name]

\* wb[name]: the rows that read_rx_sheet or read_resident_master reads
SheetRows(book, name) ==
    book[CHOOSE i \in 1..Len(book) : book[i].name = name].rows

HasSheet(book, name) == \E i \in 1..Len(book) : book[i].name = name

\* what a call leaves: the returned tuple, or raised with nothing returned
Returned(residents_read, rows_read, new_month) ==
    [raised |-> FALSE, value |-> <<residents_read, rows_read, new_month>>]

Raised == [raised |-> TRUE, value |-> None]

\* read_master_file; a workbook holds at least one sheet, and None stands for
\* a file that load_workbook cannot open
read_master_file(book, fconf, year, month, fallback) ==
    IF book = None THEN Raised
    ELSE IF ~HasSheet(book, fconf.resident_sheet) THEN Raised
    ELSE
        LET roster == SheetRows(book, fconf.resident_sheet)
            rx_label == to_reiwa_label(year, month)
        IN  IF HasSheet(book, rx_label)
            THEN Returned(roster, SheetRows(book, rx_label), FALSE)
            ELSE IF fallback
            THEN LET fallback_label ==
                         find_latest_rx_sheet(SheetNames(book), year, month)
                 IN  IF fallback_label = None THEN Raised
                     ELSE Returned(roster, SheetRows(book, fallback_label), TRUE)
            ELSE Raised

\* the roster sheet named by the facility's configuration
RosterSheet == <<"ROSTER">>

FacilityConf == [resident_sheet |-> RosterSheet]

\* sheet names: R7.12, its copy "R7.12 (2)", R8.1, R8.2, R8.10, the roster
\* and a sheet that is no month's
SheetNameSamples ==
    { <<"R", "7", ".", "1", "2">>,
      <<"R", "7", ".", "1", "2", " ", "(", "2", ")">>,
      <<"R", "8", ".", "1">>,
      <<"R", "8", ".", "2">>,
      <<"R", "8", ".", "1", "0">>,
      RosterSheet,
      <<"R", "E", "F">> }

\* (year, month) asked for
TargetMonthSamples == { <<2025, 12>>, <<2026, 1>>, <<2026, 2>>, <<2026, 10>> }

\* a sheet; its one row is marked with the sheet's name so that the rows a
\* call returns tell which sheet was read
MkSheet(name) == [name |-> name, rows |-> <<[room |-> "101", sheet |-> name]>>]

\* workbooks: sheets with pairwise different names, in any order
WorkbookSamples ==
    { [i \in 1..Len(names) |-> MkSheet(names[i])] :
        names \in { s \in SeqsUpTo(SheetNameSamples, MaxSheets) :
                      /\ s # <<>>
                      /\ \A i, j \in 1..Len(s) : i # j => s[i] # s[j] } }

InitLoad ==
    /\ pc = "start"
    /\ wb \in WorkbookSamples \cup {None}
    /\ target_month \in TargetMonthSamples
    /\ allow_fallback \in BOOLEAN
    /\ loaded = None
    /\ config = BaseConfig
    /\ rx_row = None
    /\ meal_amount = None
    /\ diaper_amount = None
    /\ supply_amount = None
    /\ is_new_month = FALSE
    /\ result = None
    /\ rx_rows = <<>>
    /\ meal_by_room = <<>>
    /\ results = <<>>
    /\ nick_by_room = <<>>
    /\ nick_records = <<>>
    /\ room_name_map = <<>>
    /\ unmatched = <<>>
    /\ target_name = <<>>
    /\ candidates = <<>>
    /\ best = None
    /\ NamesIdle /\ PriceIdle /\ MergeIdle /\ MainIdle
    /\ WelfareIdle /\ MealIdle /\ RunIdle

\* read_master_file(filepath, fconf, year, month, allow_fallback)
ReadMasterFile ==
    /\ pc = "start"
    /\ loaded' = read_master_file(wb, FacilityConf, target_month[1],
                                  target_month[2], allow_fallback)
    /\ pc' = "done"
    /\ UNCHANGED <<wb, target_month, allow_fallback, billingVars, nickVars,
                   namesVars, priceVars, mergeVars, mainVars, welfareVars,
                   mealVars, runVars>>

NextLoad == ReadMasterFile

SpecLoad == InitLoad /\ [][NextLoad]_vars

\* the name of the target month's sheet, written out for each month asked for
TargetLabel ==
    CASE target_month = <<2025, 12>> -> <<"R", "7", ".", "1", "2">>
      [] target_month = <<2026, 1>> -> <<"R", "8", ".", "1">>
      [] target_month = <<2026, 2>> -> <<"R", "8", ".", "2">>
      [] target_month = <<2026, 10>> -> <<"R", "8", ".", "1", "0">>

\* the months counted from January of Reiwa 0 that a sheet name starts with,
\* or -1 for a name that is no month's
MonthIndex(name) ==
    IF \E a \in 2..Len(name) : \E b \in (a + 2)..Len(name) :
           /\ name[1] = "R"
           /\ AllDigits(name, 2, a)
           /\ name[a + 1] = "."
           /\ AllDigits(name, a + 2, b)
    THEN LET a == CHOOSE a \in 2..Len(name) :
                      AllDigits(name, 2, a) /\ name[a + 1] = "."
             b == CHOOSE b \in (a + 2)..Len(name) :
                      /\ AllDigits(name, a + 2, b)
                      /\ (b = Len(name) \/ name[b + 1] \notin DOMAIN DigitOf)
         IN  Decimal(0, SubSeq(name, 2, a)) * 12
               + Decimal(0, SubSeq(name, a + 2, b))
    ELSE -1

TargetIndex == (target_month[1] - 2018) * 12 + target_month[2]

SheetsOf(book) == { book[i] : i \in 1..Len(book) }

\* the sheets of months before the target month
EarlierSheets ==
    { s \in SheetsOf(wb) :
        MonthIndex(s.name) # -1 /\ MonthIndex(s.name) < TargetIndex }

\* those of the latest such month
LatestEarlierSheets ==
    { s \in EarlierSheets :
        \A t \in EarlierSheets : MonthIndex(t.name) <= MonthIndex(s.name) }

RosterPresent == wb # None /\ \E s \in SheetsOf(wb) : s.name = RosterSheet

TargetPresent == \E s \in SheetsOf(wb) : s.name = TargetLabel

-----------------------------------------------------------------------------
(* main.py: the ledger loading loop, the computation and the output phase *)

\* a sheet with the given rows
SheetWith(name, rows) == [name |-> name, rows |-> rows]

\* the ledger file of a facility: a workbook with roster and R8.1 sheet, one
\* without roster sheet, one with the roster and only the R7.12 sheet, and a
\* file that cannot be opened
SourceSamples ==
    { <<SheetWith(RosterSheet, <<>>),
        SheetWith(<<"R", "8", ".", "1">>, <<OccupiedRow("101", <<"A">>)>>)>>,
      <<SheetWith(<<"R", "8", ".", "1">>,
                  <<VacantRow("101"), OccupiedRow("102", <<"FW_B">>)>>),
        SheetWith(RosterSheet, <<>>)>>,
      <<SheetWith(<<"R", "8", ".", "1">>, <<OccupiedRow("101", <<"A">>)>>)>>,
      <<SheetWith(RosterSheet, <<>>),
        SheetWith(<<"R", "7", ".", "1", "2">>, <<OccupiedRow("101", <<"A">>)>>)>>,
      None }

InitRun ==
    /\ pc = "start"
    /\ config = BaseConfig
    /\ \E k \in 0..MaxFacilities : sources \in [1..k -> SourceSamples]
    /\ target_month \in { <<2026, 1>>, <<2026, 2>> }
    /\ meals = [n \in {FacilityNames[i] : i \in 1..Len(sources)} |-> <<>>]
    /\ nick_records \in SeqsUpTo(SharedRecordSamples, 1)
    /\ masters = <<>>
    /\ reported = <<>>
    /\ all_nick = <<>>
    /\ all_billings = <<>>
    /\ written = <<>>
    /\ wb = None
    /\ allow_fallback = FALSE
    /\ loaded = None
    /\ room_name_map = <<>>
    /\ nick_by_room = <<>>
    /\ unmatched = <<>>
    /\ target_name = <<>>
    /\ candidates = <<>>
    /\ best = None
    /\ rx_row = None
    /\ meal_amount = None
    /\ diaper_amount = None
    /\ supply_amount = None
    /\ is_new_month = FALSE
    /\ result = None
    /\ rx_rows = <<>>
    /\ meal_by_room = <<>>
    /\ results = <<>>
    /\ NamesIdle /\ PriceIdle /\ MergeIdle /\ WelfareIdle /\ MealIdle

\* "residents, rx_rows = read_master_file(...)": the assignment raises
\* ValueError unless the returned tuple holds exactly two values
UnpackRaises(value) == Len(value) # 2

\* one iteration of the loop over config["facilities"] that loads the ledgers:
\* any exception of the try block is printed and the facility is left out of
\* masters_by_facility
LoadMaster ==
    /\ pc = "start"
    /\ Len(masters) + Len(reported) < Len(sources)
    /\ LET k == Len(masters) + Len(reported) + 1
           fname == FacilityNames[k]
           ret == read_master_file(sources[k], FacilityConf, target_month[1],
                                   target_month[2], FALSE)
       IN  /\ wb' = sources[k]
           /\ loaded' = ret
           /\ IF ret.raised \/ UnpackRaises(ret.value)
              THEN /\ reported' = Append(reported, fname)
                   /\ masters' = masters
              ELSE /\ masters' = Append(masters,
                                        [fname |-> fname,
                                         residents |-> ret.value[1],
                                         rx_rows |-> ret.value[2]])
                   /\ reported' = reported
    /\ UNCHANGED <<pc, sources, target_month, allow_fallback, written, meals,
                   all_nick, all_billings, billingVars, nickVars, namesVars,
                   priceVars, mergeVars, welfareVars, mealVars>>

\* phase 2: the loop over masters_by_facility
ComputePhase ==
    /\ pc = "start"
    /\ Len(masters) + Len(reported) = Len(sources)
    /\ all_nick' = [k \in 1..Len(masters) |-> FacilityNick(k)]
    /\ all_billings' = [k \in 1..Len(masters) |->
                           <<masters[k].fname, FacilityBillings(k)>>]
    /\ pc' = "computed"
    /\ UNCHANGED <<masters, meals, billingVars, nickVars, namesVars, priceVars,
                   mergeVars, welfareVars, mealVars, loadVars, runVars>>

\* phase 3: the loop over all_billings that writes each facility's outputs
WritePhase ==
    /\ pc = "computed"
    /\ written' = [k \in 1..Len(all_billings) |-> all_billings[k][1]]
    /\ pc' = "done"
    /\ UNCHANGED <<sources, reported, mainVars, billingVars, nickVars,
                   namesVars, priceVars, mergeVars, welfareVars, mealVars,
                   loadVars>>

NextRun == LoadMaster \/ ComputePhase \/ WritePhase

SpecRun == InitRun /\ [][NextRun]_vars

\* the ledger of the k-th facility can be read for the target month: the
\* file opens and holds the roster sheet and the month's sheet
LedgerLoads(k) ==
    /\ sources[k] # None
    /\ \E i \in 1..Len(sources[k]) : sources[k][i].name = RosterSheet
    /\ \E i \in 1..Len(sources[k]) : sources[k][i].name = TargetLabel

LedgerRows(k) ==
    sources[k][CHOOSE i \in 1..Len(sources[k]) :
                   sources[k][i].name = TargetLabel].rows

InSeq(x, s) == \E i \in 1..Len(s) : s[i] = x

\* C26 (as claimed): at the end of the run every facility whose ledger fails
\* to load is reported and has no output, and every facility whose ledger
\* loads has its billing results computed and written.
Cex_C26_LoadedFacilitiesWritten ==
    pc = "done" =>
        \A k \in 1..Len(sources) :
            IF LedgerLoads(k)
            THEN /\ InSeq(FacilityNames[k], written)
                 /\ \E i \in 1..Len(all_billings) :
                       /\ all_billings[i][1] = FacilityNames[k]
                       /\ Len(all_billings[i][2]) = Len(LedgerRows(k))
            ELSE /\ InSeq(FacilityNames[k], reported)
                 /\ ~InSeq(FacilityNames[k], written)

-----------------------------------------------------------------------------
(* vacancy of a ledger row and of the result built from it *)

\* C27 (as claimed): the result's is_vacant equals the vacancy of the ledger
\* row it was built from, which is vacant iff its name is empty or its total
\* is absent or zero.
Cex_C27_VacancyAgrees ==
    BillingDone =>
        /\ ResultIsVacant(result) = RxIsVacant(rx_row)
        /\ RxIsVacant(rx_row) =
              (rx_row.name = "" \/ rx_row.total = <<>> \/ rx_row.total = <<0>>)

-----------------------------------------------------------------------------
(* writers/summary_writer.py: the data row written for one BillingResult *)

\* "value or None": a zero amount leaves the cell blank
OrNone(v) == IF v # 0 THEN Some(v) ELSE None

\* the cells C..Y of the row, blank cells being None; U and V stay unused
SummaryRow(b) ==
    [ C |-> IF b.installment_balance > 0 THEN Some(b.installment_balance)
            ELSE None,
      D |-> OrNone(b.rent), E |-> OrNone(b.management), F |-> OrNone(b.common),
      G |-> OrNone(b.water), H |-> OrNone(b.utility), I |-> OrNone(b.meal),
      J |-> IF b.adjustment # 0 THEN Some(b.adjustment) ELSE None,
      K |-> OrNone(b.diaper), L |-> OrNone(b.daily_supplies),
      M |-> OrNone(b.installment), N |-> OrNone(b.office_fee),
      O |-> OrNone(b.day_service), P |-> OrNone(b.welfare_equip),
      Q |-> OrNone(b.pharmacy), R |-> OrNone(b.doctor), S |-> OrNone(b.support),
      T |-> OrNone(b.other), U |-> None, V |-> None,
      X |-> OrNone(b.care_burden), Y |-> OrNone(b.nurse_burden) ]

\* the columns D..V that the formula of W sums
ColumnsDToV ==
    <<"D", "E", "F", "G", "H", "I", "J", "K", "L", "M", "N", "O", "P", "Q",
      "R", "S", "T", "U", "V">>

\* a blank cell counts as 0 in a formula
CellValue(c) == IF c = None THEN 0 ELSE c[1]

RECURSIVE SumCells(_, _)
SumCells(row, cols) ==
    IF cols = <<>> THEN 0
    ELSE CellValue(row[Head(cols)]) + SumCells(row, Tail(cols))

\* W: =SUM(D:V)
FormulaW(row) == SumCells(row, ColumnsDToV)

\* Z: =SUM(W:Y)
FormulaZ(row) == FormulaW(row) + CellValue(row.X) + CellValue(row.Y)

\* AC: =C-M
FormulaAC(row) == CellValue(row.C) - CellValue(row.M)

-----------------------------------------------------------------------------
(* rollover month after month: a month's result, written by summary_writer *)
(* and read back by read_rx_sheet, is the next month's ledger row          *)

\* the ledger row read back from the row written for result b; the formula
\* cells W, Z and AC hold a value only if the workbook was recalculated
\* before it is read with data_only
NextLedgerRow(rx, b, recalculated) ==
    LET row == SummaryRow(b)
    IN  [ rx EXCEPT
            !.installment_balance = row.C,
            !.rent = row.D, !.management = row.E, !.common = row.F,
            !.water = row.G, !.utility = row.H, !.meal = row.I,
            !.adjustment = row.J, !.diaper = row.K, !.daily_supplies = row.L,
            !.installment = row.M, !.office_fee = row.N,
            !.day_service = row.O, !.welfare_equip = row.P,
            !.pharmacy = row.Q, !.doctor = row.R, !.support = row.S,
            !.other = row.T, !.care_burden = row.X, !.nurse_burden = row.Y,
            !.subtotal = IF recalculated THEN Some(FormulaW(row)) ELSE None,
            !.total = IF recalculated THEN Some(FormulaZ(row)) ELSE None,
            !.remaining_balance =
                IF recalculated THEN Some(FormulaAC(row)) ELSE None,
            !.invoice_status = None ]

\* the first month's ledger row: balance and installment absent or
\* non-negative, no notes, the monthly installment 10000 by default or 3000
InitRollover ==
    /\ pc = "start"
    /\ config \in {BaseConfig, InstallmentConfig}
    /\ rx_row \in { r \in RowSamples : r.notes = <<>> }
    /\ meal_amount = None
    /\ diaper_amount = None
    /\ supply_amount = None
    /\ is_new_month = TRUE
    /\ result = None
    /\ rx_rows = <<>>
    /\ meal_by_room = <<>>
    /\ results = <<>>
    /\ nick_by_room = <<>>
    /\ nick_records = <<>>
    /\ room_name_map = <<>>
    /\ unmatched = <<>>
    /\ target_name = <<>>
    /\ candidates = <<>>
    /\ best = None
    /\ NamesIdle /\ PriceIdle /\ MergeIdle /\ MainIdle /\ RestIdle

\* one month: the result is built with rollover and becomes the ledger row
RolloverMonth ==
    /\ pc = "start"
    /\ \E recalculated \in BOOLEAN :
          \E b \in {build_billing(rx_row, meal_amount, diaper_amount,
                                  supply_amount, config, TRUE)} :
              /\ result' = b
              /\ rx_row' = NextLedgerRow(rx_row, b, recalculated)
    /\ UNCHANGED <<pc, config, meal_amount, diaper_amount, supply_amount,
                   is_new_month, rx_rows, meal_by_room, results, nickVars,
                   namesVars, priceVars, mergeVars, mainVars, restVars>>

NextRollover == RolloverMonth

\* every month is followed by the next one
SpecRollover ==
    InitRollover /\ [][NextRollover]_vars /\ WF_vars(RolloverMonth)

\* the installment balance and payment a ledger row carries
LedgerBalance(rx) ==
    IF rx.installment_balance = <<>> THEN 0 ELSE rx.installment_balance[1]

LedgerInstallment(rx) == IF rx.installment = <<>> THEN 0 ELSE rx.installment[1]

PaidOff ==
    /\ result # None
    /\ result.installment_balance = 0
    /\ result.installment = 0
    /\ LedgerBalance(rx_row) = 0
    /\ LedgerInstallment(rx_row) = 0

\* C29: under rollover month after month the installment balance never
\* increases, it reaches 0 after finitely many months, and from the month it
\* is 0 on the balance and the installment payment both stay 0.
Thm_C29_BalancePaidOff ==
    /\ [][LedgerBalance(rx_row') <= LedgerBalance(rx_row)]_vars
    /\ <>(result # None /\ result.installment_balance = 0)
    /\ []((result # None /\ result.installment_balance = 0) => []PaidOff)

\* C29 witness: the third month of a balance of 25000 paid off by 10000 a
\* month
Wit_C29_ThirdMonth ==
    /\ result # None
    /\ result.installment_balance = 5000
    /\ result.installment = 10000
    /\ rx_row.installment_balance = <<5000>>
    /\ rx_row.installment = <<10000>>

-----------------------------------------------------------------------------
(* calc_all_nick's name resolution against find_best_match *)

\* the names of room_name_map have pairwise different, non-empty canonical forms
DistinctCanonicalNames ==
    /\ \A i \in Indices : CandCanon(i) # <<>>
    /\ \A i, j \in Indices : i # j => CandCanon(i) # CandCanon(j)

\* C30: when the names of room_name_map have pairwise distinct non-empty
\* canonical forms, the room calc_all_nick resolves a billed usage record to
\* is the room of the name find_best_match returns for the record's name over
\* the map's names in the same order, and the record is left unmatched
\* exactly when find_best_match returns None.
Thm_C30_ResolvesAsFindBestMatch ==
    (pc = "done" /\ RecordBilled /\ DistinctCanonicalNames) =>
        /\ best # None =>
              /\ \E i \in Indices : candidates[i] = best[1] /\ ResolvedTo(i)
              /\ unmatched = <<>>
        /\ best = None =>
              /\ DOMAIN nick_by_room = {}
              /\ unmatched = nick_records
        /\ (unmatched # <<>>) = (best = None)

\* C30 witness: two roster names of different canonical forms, the second
\* found by containment by both functions
Wit_C30_SecondByContainment ==
    /\ pc = "done" /\ RecordBilled /\ DistinctCanonicalNames
    /\ Len(candidates) = 2
    /\ ~ExactAt(1) /\ ~OneCharAt(1) /\ ~SubstringAt(1)
    /\ ~ExactAt(2) /\ ~OneCharAt(2) /\ SubstringAt(2)
    /\ best = Some(candidates[2])
    /\ ResolvedTo(2)
    /\ unmatched = <<>>

====
